---- MODULE Spec2Model ----
(* A model of diced's DicedArray (src/diced/DicedArray.py): index            *)
(* normalisation, tiling of large requests, block alignment with            *)
(* read-modify-write, squeezing of results and extent reporting, over a     *)
(* DVID node service that stores cells and a bounding box.                  *)
(*                                                                          *)
(* Sizes are scaled down: blocks of 2 or 3 cells instead of 64, 512 or      *)
(* 262144, a request cap of at most 3 cells instead of 512^3, and the       *)
(* element types uint8 and uint16 (uint32 and uint64 exceed the integers    *)
(* of the model checker).  Coordinates are <<z, y, x>> as in the code.      *)
EXTENDS Integers, Sequences, FiniteSets, TLC

VARIABLES arr,      \* the DicedArray handle: numdims, dtype, locked, blocksize, maxreq
          store,    \* the cells kept by the DVID instance, by <<z, y, x>>
          minpoint, \* typeinfo Extended.MinPoint as <<x, y, z>>, <<>> for None
          maxpoint, \* typeinfo Extended.MaxPoint as <<x, y, z>>, <<>> for None
          last,     \* the last call: its operation, arguments, outcome, result
          reqs,     \* the requests the last call sent to the node service
          pre,      \* the cells as they were before the last call
          nwrites,  \* number of __setitem__ calls made so far
          dvid,     \* the DVID server: repositories, version nodes, files, instances
          repo,     \* the DicedRepo object: uuid, locked, alluuids, instances
          handles,  \* the DicedArray handles the repo object has given out
          call,     \* the last call on DicedStore, DicedRepo or one of the handles
          loop,     \* the "split into chunks" loop of a call in progress, pass by pass
          writers   \* the __setitem__ calls two clients have in progress at once

arrayvars == <<arr, store, minpoint, maxpoint, last, reqs, pre, nwrites>>
repovars == <<dvid, repo, handles, call>>
vars == <<arr, store, minpoint, maxpoint, last, reqs, pre, nwrites, dvid, repo, handles, call,
          loop, writers>>

-----------------------------------------------------------------------------
(* Bounds of the exploration.                                               *)

\* requests address x in -XNeg .. XHi, y in 0 .. YHi, z in 0 .. ZHi
XNeg == 1
XHi == 1
YHi == 1
ZHi == 1
\* calls are explored until this many __setitem__ calls have been made
MaxWrites == 2
\* the service may fail on any of the first MaxFailAt requests of a call
\* made before FaultCalls calls of __setitem__ have been made
MaxFailAt == 4
FaultCalls == 1

(* Program constants, scaled down.                                          *)
BLKSIZE3D == 2
BLKSIZE2D == 2
BLKSIZE1D == 3
MAX_REQ_SIZE == 3

\* the request caps a handle is explored with (self.MAX_REQ_SIZE): the
\* program's, and the smallest there is, under which every request of more
\* than one cell is tiled
Caps == {1, MAX_REQ_SIZE}

\* ArrayDtype, restricted to the two narrowest types
ArrayDtype == {"uint8", "uint16"}

Width(dtype) == IF dtype = "uint8" THEN 256 ELSE 65536

\* numpy's conversion of a value on assignment into an array of type dtype
Cast(v, dtype) == v % Width(dtype)

-----------------------------------------------------------------------------
(* numpy arrays: a shape (one entry per axis, rank 0 to 3), an element      *)
(* type and the elements by 0-based index tuple.  isnd is FALSE for a       *)
(* value that is not a numpy array (a Python number).                       *)

Box(shape) ==
    IF Len(shape) = 0 THEN {<<>>}
    ELSE IF Len(shape) = 1 THEN {<<c>> : c \in 0..(shape[1] - 1)}
    ELSE IF Len(shape) = 2
         THEN {<<b, c>> : b \in 0..(shape[1] - 1), c \in 0..(shape[2] - 1)}
    ELSE {<<a, b, c>> : a \in 0..(shape[1] - 1), b \in 0..(shape[2] - 1),
                        c \in 0..(shape[3] - 1)}

NdArray(shape, dtype, elems) ==
    [isnd |-> TRUE, shape |-> shape, dtype |-> dtype,
     at |-> [i \in Box(shape) |-> elems[i]]]

\* numpy.zeros(shape, dtype)
Zeros(shape, dtype) == NdArray(shape, dtype, [i \in Box(shape) |-> 0])

\* a Python int passed where an array is expected
PyInt(v) ==
    [isnd |-> FALSE, shape |-> <<>>, dtype |-> "int", at |-> [i \in {<<>>} |-> v]]

Product(shape) ==
    IF Len(shape) = 0 THEN 1
    ELSE IF Len(shape) = 1 THEN shape[1]
    ELSE IF Len(shape) = 2 THEN shape[1] * shape[2]
    ELSE shape[1] * shape[2] * shape[3]

\* zsize, ysize, xsize as _setchunk reads them from data.shape
ShapeZYX(shape) ==
    IF Len(shape) = 3 THEN shape
    ELSE IF Len(shape) = 2 THEN <<1, shape[1], shape[2]>>
    ELSE IF Len(shape) = 1 THEN <<1, 1, shape[1]>>
    ELSE <<1, 1, 1>>

\* the element numpy broadcasting takes from data for position i of a 3D target
Broadcast3(data, i) ==
    IF Len(data.shape) = 3 THEN data.at[i]
    ELSE IF Len(data.shape) = 2 THEN data.at[<<i[2], i[3]>>]
    ELSE IF Len(data.shape) = 1 THEN data.at[<<i[3]>>]
    ELSE data.at[<<>>]

Add3(p, q) == <<p[1] + q[1], p[2] + q[2], p[3] + q[3]>>
Sub3(p, q) == <<p[1] - q[1], p[2] - q[2], p[3] - q[3]>>

\* cell c lies in the box with the given origin and shape
InBox(c, origin, shape) ==
    \A k \in 1..3 : c[k] >= origin[k] /\ c[k] < origin[k] + shape[k]

\* data[o1:o1+s1, o2:o2+s2, o3:o3+s3] of a 3D array (slices clamp to the shape)
Slice3(data, off, size) ==
    LET sh == <<IF off[1] + size[1] > data.shape[1]
                  THEN (IF data.shape[1] > off[1] THEN data.shape[1] - off[1] ELSE 0)
                  ELSE size[1],
                IF off[2] + size[2] > data.shape[2]
                  THEN (IF data.shape[2] > off[2] THEN data.shape[2] - off[2] ELSE 0)
                  ELSE size[2],
                IF off[3] + size[3] > data.shape[3]
                  THEN (IF data.shape[3] > off[3] THEN data.shape[3] - off[3] ELSE 0)
                  ELSE size[3]>>
    IN [isnd |-> TRUE, shape |-> sh, dtype |-> data.dtype,
        at |-> [i \in Box(sh) |-> data.at[Add3(off, i)]]]

\* A merge into a fresh buffer: what target held elsewhere is lost.
AssignSlice3Fresh(target, off, size, data) ==
    [target EXCEPT !.at = [i \in Box(target.shape) |->
        IF InBox(i, off, size)
        THEN Cast(Broadcast3(data, Sub3(i, off)), target.dtype)
        ELSE 0]]

\* target[off : off+size] = data, for a 3D target; the values are cast to
\* the target's element type
AssignSlice3(target, off, size, data) ==
    [target EXCEPT !.at = [i \in Box(target.shape) |->
        IF InBox(i, off, size)
        THEN Cast(Broadcast3(data, Sub3(i, off)), target.dtype)
        ELSE target.at[i]]]

\* data.squeeze(axes): the axes (0-based, as in numpy) are removed; each
\* has length 1 where __getitem__ calls it
Squeeze(data, axes) ==
    LET rank == Len(data.shape)
        keep == SelectSeq([k \in 1..rank |-> k], LAMBDA k : (k - 1) \notin axes)
        sh   == [j \in 1..Len(keep) |-> data.shape[keep[j]]]
        Pos(k) == CHOOSE j \in 1..Len(keep) : keep[j] = k
    IN [isnd |-> TRUE, shape |-> sh, dtype |-> data.dtype,
        at |-> [i \in Box(sh) |->
                 data.at[[k \in 1..rank |-> IF (k - 1) \in axes THEN 0 ELSE i[Pos(k)]]]]]

\* data.squeeze(): every axis of length 1 is removed
SqueezeAll(data) ==
    Squeeze(data, {k - 1 : k \in {j \in 1..Len(data.shape) : data.shape[j] = 1}})

-----------------------------------------------------------------------------
(* Python indexes.  An entry is an int or a slice; an index is one bare     *)
(* entry or a tuple of entries.                                             *)

PInt(k) == [t |-> "int", a |-> k, b |-> k]
PSlice(start, stop) == [t |-> "slice", a |-> start, b |-> stop]
PTuple(items) == [t |-> "tuple", items |-> items]

\* slice(k, k+1) for an int entry, the entry itself for a slice
AsSlice(e) == IF e.t = "int" THEN PSlice(e.a, e.a + 1) ELSE e

\* The index handling shared by __getitem__ and __setitem__: dimsreq, the
\* index with its ints replaced by slices, and the singleindex flags
\* (which only __getitem__ keeps).
NormalizeIndex(index) ==
    IF index.t = "int"
    THEN [dimsreq |-> 1, index |-> PSlice(index.a, index.a + 1),
          single |-> <<FALSE, FALSE, TRUE>>]
    ELSE IF index.t = "slice"
    THEN [dimsreq |-> 1, index |-> index, single |-> <<FALSE, FALSE, FALSE>>]
    ELSE IF Len(index.items) = 3
    THEN [dimsreq |-> 3,
          index |-> PTuple([k \in 1..3 |-> AsSlice(index.items[k])]),
          single |-> [k \in 1..3 |-> index.items[k].t = "int"]]
    ELSE IF Len(index.items) = 2
    THEN [dimsreq |-> 2,
          index |-> PTuple([k \in 1..2 |-> AsSlice(index.items[k])]),
          single |-> <<FALSE, index.items[1].t = "int", index.items[2].t = "int">>]
    ELSE [dimsreq |-> Len(index.items), index |-> index,
          single |-> <<FALSE, FALSE, FALSE>>]

\* z, y, x after "z = y = x = slice(0,1)" and the unpacking of the index;
\* with dimsreq = 1 x is the index itself, which may be a 1-tuple
RangesZYX(n) ==
    IF n.dimsreq = 3 THEN n.index.items
    ELSE IF n.dimsreq = 2 THEN <<PSlice(0, 1), n.index.items[1], n.index.items[2]>>
    ELSE <<PSlice(0, 1), PSlice(0, 1), n.index>>

Start3(r) == <<r[1].a, r[2].a, r[3].a>>
Sizes3(r) == <<r[1].b - r[1].a, r[2].b - r[2].a, r[3].b - r[3].a>>

-----------------------------------------------------------------------------
(* The DVID node service (libdvid), as DicedArray uses it.  A world is the  *)
(* instance's cells and bounding box, the requests sent so far by the call  *)
(* in progress, and the exception raised, if any.  failat is the request of *)
(* the call at which the service fails (server or connection error), 0 when *)
(* it serves them all: libdvid raises, and DicedArray catches nothing.  The *)
(* exception is libdvid's; what it says of the request that failed is up to *)
(* libdvid: the request (named), or nothing.  errreq is what it carries.    *)

World(st, mn, mx) ==
    [store |-> st, minpoint |-> mn, maxpoint |-> mx, reqs |-> <<>>, err |-> "ok",
     failat |-> 0, named |-> FALSE, errreq |-> <<>>]

\* the exception libdvid raises for the request just sent
Raise(w) ==
    [w EXCEPT !.err = "StoreError",
              !.errreq = IF w.named THEN <<w.reqs[Len(w.reqs)]>> ELSE <<>>]

\* the next request of the call is the one the service fails on
Fails(w) == w.failat = Len(w.reqs) + 1

Min(a, b) == IF a < b THEN a ELSE b
Max(a, b) == IF a > b THEN a ELSE b

\* ns.get_array<N>bit3D(instancename, dims, offset): the cells of the box
\* as a 3D array of the instance's type; cells never written read as 0
GetArray(w, a, dims, offset) ==
    LET w1 == [w EXCEPT !.reqs = Append(@, [op |-> "get", origin |-> offset, shape |-> dims])]
    IN IF Fails(w)
       THEN [w |-> Raise(w1), data |-> Zeros(<<0, 0, 0>>, a.dtype)]
       ELSE [w |-> w1,
             data |-> NdArray(dims, a.dtype,
                              [i \in Box(dims) |->
                                 IF Add3(offset, i) \in DOMAIN w.store
                                 THEN w.store[Add3(offset, i)] ELSE 0])]

\* ns.put_array<N>bit3D(instancename, data, offset).  The binding is given
\* whatever array the caller holds; one that is not 3D or not of the
\* instance's type is either refused by it or taken (accept) with numpy's
\* conversion.  The instance's MinPoint and MaxPoint grow to cover the box.
PutArray(w, a, data, offset, accept) ==
    LET sh == ShapeZYX(data.shape)
        w1 == [w EXCEPT !.reqs = Append(@, [op |-> "put", origin |-> offset, shape |-> sh,
                                            data |-> data])]
        lo == <<offset[3], offset[2], offset[1]>>
        hi == <<offset[3] + sh[3] - 1, offset[2] + sh[2] - 1, offset[1] + sh[1] - 1>>
    IN IF Fails(w) THEN Raise(w1)
       ELSE IF (Len(data.shape) # 3 \/ data.dtype # a.dtype) /\ ~accept
       THEN [w1 EXCEPT !.err = "StoreError"]
       ELSE IF Product(sh) = 0 THEN w1
       ELSE [w1 EXCEPT
               !.store = [c \in DOMAIN w.store |->
                            IF InBox(c, offset, sh)
                            THEN Cast(Broadcast3(data, Sub3(c, offset)), a.dtype)
                            ELSE w.store[c]],
               !.minpoint = IF w.minpoint = <<>> THEN lo
                            ELSE [k \in 1..3 |-> Min(w.minpoint[k], lo[k])],
               !.maxpoint = IF w.maxpoint = <<>> THEN hi
                            ELSE [k \in 1..3 |-> Max(w.maxpoint[k], hi[k])]]

-----------------------------------------------------------------------------
(* DicedArray                                                               *)

\* A get that stores what it fetched, creating the blocks it read.
GetChunkStoring(w, a, z, y, x, zsize, ysize, xsize) ==
    LET got == GetArray(w, a, <<zsize, ysize, xsize>>, <<z, y, x>>)
    IN IF got.w.err # "ok" THEN got
       ELSE [w |-> PutArray(got.w, a, got.data, <<z, y, x>>, TRUE), data |-> got.data]

\* _getchunk: one get of the box at (z, y, x)
GetChunk(w, a, z, y, x, zsize, ysize, xsize) ==
    GetArray(w, a, <<zsize, ysize, xsize>>, <<z, y, x>>)

\* The remainder taken with the sign of the coordinate, as C's % does.
Rem(c, blk) == IF c < 0 THEN -((-c) % blk) ELSE c % blk
AlignedOriginRem(a, z, y, x) ==
    <<z - Rem(z, a.blocksize[3]), y - Rem(y, a.blocksize[2]), x - Rem(x, a.blocksize[1])>>

\* the block-aligned origin of _setchunk: znew, ynew, xnew
AlignedOrigin(a, z, y, x) ==
    <<z - (z % a.blocksize[3]), y - (y % a.blocksize[2]), x - (x % a.blocksize[1])>>

\* The size extended back to the block boundary, but not rounded up.
AlignedSizeNoRound(size, start, blk) == size + (start % blk)

\* A size that takes one more block whether it needs rounding or not.
AlignedSizeExtra(size, start, blk) ==
    LET s == size + (start % blk)
    IN s + (blk - (s % blk))

\* one axis of the block-aligned shape of _setchunk
AlignedSize(size, start, blk) ==
    LET s == size + (start % blk)
    IN IF s % blk > 0 THEN s + (blk - (s % blk)) ELSE s

AlignedShape(a, z, y, x, shape) ==
    <<AlignedSize(shape[1], z, a.blocksize[3]),
      AlignedSize(shape[2], y, a.blocksize[2]),
      AlignedSize(shape[3], x, a.blocksize[1])>>

\* A _setchunk that gets and merges whether the box is aligned or not.
SetChunkMerging(w, a, z, y, x, data, accept) ==
    IF ~data.isnd THEN [w EXCEPT !.err = "NotNdarray"]
    ELSE
    LET orig == ShapeZYX(data.shape)
        new  == AlignedOrigin(a, z, y, x)
        size == AlignedShape(a, z, y, x, orig)
        got == GetChunk(w, a, new[1], new[2], new[3], size[1], size[2], size[3])
        newdata == AssignSlice3(got.data, Sub3(<<z, y, x>>, new), orig, data)
    IN IF got.w.err # "ok" THEN got.w
       ELSE PutArray(got.w, a, newdata, new, accept)

\* _setchunk: store data at (z, y, x), through a get of the enclosing
\* blocks when the box of data is not block aligned
SetChunk(w, a, z, y, x, data, accept) ==
    IF ~data.isnd THEN [w EXCEPT !.err = "NotNdarray"]
    ELSE
    LET orig == ShapeZYX(data.shape)
        new  == AlignedOrigin(a, z, y, x)
        size == AlignedShape(a, z, y, x, orig)
        blockaligned == new = <<z, y, x>> /\ size = orig
    IN IF ~blockaligned
       THEN LET got == GetChunk(w, a, new[1], new[2], new[3], size[1], size[2], size[3])
                newdata == AssignSlice3(got.data, Sub3(<<z, y, x>>, new), orig, data)
            IN IF got.w.err # "ok" THEN got.w
               ELSE PutArray(got.w, a, newdata, new, accept)
       ELSE PutArray(w, a, data, new, accept)

\* n//2 + n%2
HalfUp(n) == (n \div 2) + (n % 2)

\* one pass of the body of the "while zincr*yincr*xincr > MAX_REQ_SIZE" loop
HalveStep(incr) ==
    IF incr[1] > incr[2] /\ incr[1] > incr[3]
    THEN <<HalfUp(incr[1]), incr[2], incr[3]>>
    ELSE IF incr[2] > incr[1] /\ incr[2] > incr[3]
    THEN <<incr[1], HalfUp(incr[2]), incr[3]>>
    ELSE <<incr[1], incr[2], HalfUp(incr[3])>>

\* One halving where the loop is needed: an "if" for the "while".
IncrementsOnce(incr, cap) ==
    IF incr[1] * incr[2] * incr[3] <= cap THEN incr ELSE HalveStep(incr)

\* the increments the loop ends with, or <<0, 0, 0>> when it never ends
\* (a pass that changes nothing is repeated for ever)
RECURSIVE Increments(_, _)
Increments(incr, cap) ==
    IF incr[1] * incr[2] * incr[3] <= cap THEN incr
    ELSE IF HalveStep(incr) = incr THEN <<0, 0, 0>>
    ELSE Increments(HalveStep(incr), cap)

\* A range that stops short: the last, partial step is left out.
RangeSeqFloor(size, incr) == [k \in 1..(size \div incr) |-> (k - 1) * incr]

\* range(0, size, incr) as a sequence
RangeSeq(size, incr) == [k \in 1..((size + incr - 1) \div incr) |-> (k - 1) * incr]

\* the (ziter, yiter, xiter) of the three nested loops, in the order visited
TileOffsets(sizes, incr) ==
    LET zs == RangeSeq(sizes[1], incr[1])
        ys == RangeSeq(sizes[2], incr[2])
        xs == RangeSeq(sizes[3], incr[3])
    IN [t \in 1..(Len(zs) * Len(ys) * Len(xs)) |->
          <<zs[((t - 1) \div (Len(ys) * Len(xs))) + 1],
            ys[(((t - 1) \div Len(xs)) % Len(ys)) + 1],
            xs[((t - 1) % Len(xs)) + 1]>>]

\* csizez, csizey, csizex of the tile at offset off
TileShape(sizes, incr, off) ==
    [k \in 1..3 |-> Min(sizes[k] - off[k], incr[k])]

\* None, where a call returns nothing
PyNone ==
    [isnd |-> FALSE, shape |-> <<>>, dtype |-> "None", at |-> [i \in {<<>>} |-> 0]]

\* the tiles of __getitem__ from tile t on: one _getchunk each, copied
\* into data at the tile's offset
RECURSIVE ReadTiles(_, _, _, _, _, _, _, _)
ReadTiles(w, a, start, sizes, incr, offs, t, data) ==
    IF t > Len(offs) THEN [w |-> w, data |-> data]
    ELSE LET off == offs[t]
             cs  == TileShape(sizes, incr, off)
             st  == Add3(off, start)
             got == GetChunk(w, a, st[1], st[2], st[3], cs[1], cs[2], cs[3])
         IN IF got.w.err # "ok" THEN [w |-> got.w, data |-> data]
            ELSE ReadTiles(got.w, a, start, sizes, incr, offs, t + 1,
                           AssignSlice3(data, off, cs, got.data))

\* the data __getitem__ collects for the ranges r before squeezing, with
\* the request cap given; err is "hang" when the halving loop never ends
ReadData(w, a, r, cap) ==
    LET sizes == Sizes3(r)
        start == Start3(r)
        zeros == Zeros(sizes, a.dtype)
    IN IF sizes[1] * sizes[2] * sizes[3] > cap
       THEN LET incr == Increments(sizes, cap)
            IN IF incr = <<0, 0, 0>>
               THEN [w |-> [w EXCEPT !.err = "hang"], data |-> zeros]
               ELSE ReadTiles(w, a, start, sizes, incr, TileOffsets(sizes, incr), 1, zeros)
       ELSE GetChunk(w, a, start[1], start[2], start[3], sizes[1], sizes[2], sizes[3])

\* int(data.squeeze()): the one element as a Python int
IntOfSqueezed(data) == PyInt(SqueezeAll(data).at[<<>>])

\* "squeeze data as requested", the end of __getitem__
SqueezeResult(a, single, data) ==
    IF a.numdims = 3
    THEN IF single[1] /\ single[2] /\ single[3]
         THEN [err |-> "ok", value |-> IntOfSqueezed(data)]
         ELSE IF single[1] /\ single[2]
         THEN [err |-> "ok", value |-> Squeeze(data, {0, 1})]
         ELSE IF single[2] /\ single[3]
         THEN [err |-> "ok", value |-> Squeeze(data, {1, 2})]
         ELSE IF single[1] /\ single[3]
         THEN [err |-> "ok", value |-> Squeeze(data, {0, 2})]
         ELSE IF single[1] THEN [err |-> "ok", value |-> Squeeze(data, {0})]
         ELSE IF single[2] THEN [err |-> "ok", value |-> Squeeze(data, {1})]
         ELSE IF single[3] THEN [err |-> "ok", value |-> Squeeze(data, {2})]
         ELSE [err |-> "ok", value |-> data]
    ELSE IF a.numdims = 2
    THEN LET d == Squeeze(data, {0})
         IN IF single[2] /\ single[3]
            THEN [err |-> "ok", value |-> IntOfSqueezed(d)]
            ELSE IF single[2] THEN [err |-> "ok", value |-> Squeeze(d, {0})]
            ELSE IF single[3] THEN [err |-> "ok", value |-> Squeeze(d, {1})]
            ELSE [err |-> "ok", value |-> d]
    ELSE LET d == Squeeze(data, {0, 1})
         IN IF single[3]
            \* int(data.squeeze): int() of the bound method, not of its result
            THEN [err |-> "TypeError", value |-> PyNone]
            ELSE [err |-> "ok", value |-> d]

\* x of a 1-entry index is the index itself; a tuple has no .stop
IsOneTuple(n) == n.dimsreq = 1 /\ n.index.t = "tuple"

\* __getitem__(index): the outcome, the value returned and the world after
GetItem(w, a, index) ==
    LET n == NormalizeIndex(index)
    IN IF a.numdims # n.dimsreq
       THEN [outcome |-> "DimensionMismatch", value |-> PyNone, w |-> w]
       ELSE IF IsOneTuple(n)
       THEN [outcome |-> "AttributeError", value |-> PyNone, w |-> w]
       ELSE LET got == ReadData(w, a, RangesZYX(n), a.maxreq)
                sq  == SqueezeResult(a, n.single, got.data)
            IN IF got.w.err # "ok"
               THEN [outcome |-> got.w.err, value |-> PyNone, w |-> got.w]
               ELSE [outcome |-> sq.err, value |-> sq.value, w |-> got.w]

\* the tiles of __setitem__ from tile t on: the slice of val at the tile's
\* offset goes to _setchunk; an exception ends the loop
\* Tiles stored side by side: the get of every tile sees the cells as they
\* were when the call began (st0), and its put stores the box merged from
\* them.
RECURSIVE FanOut(_, _, _, _, _, _, _, _, _, _)
FanOut(st0, w, a, start, sizes, incr, offs, t, val, accept) ==
    IF t > Len(offs) \/ w.err # "ok" THEN w
    ELSE IF ~val.isnd THEN [w EXCEPT !.err = "TypeError"]
    ELSE IF Len(val.shape) < 3 THEN [w EXCEPT !.err = "IndexError"]
    ELSE LET off == offs[t]
             cs  == TileShape(sizes, incr, off)
             st  == Add3(off, start)
             wt  == SetChunk([w EXCEPT !.store = st0], a, st[1], st[2], st[3],
                             Slice3(val, off, cs), accept)
             box == wt.reqs[Len(wt.reqs)]
             w1  == [wt EXCEPT !.store = [c \in DOMAIN w.store |->
                                            IF InBox(c, box.origin, box.shape)
                                            THEN wt.store[c] ELSE w.store[c]]]
         IN FanOut(st0, w1, a, start, sizes, incr, offs, t + 1, val, accept)

WriteTilesFanOut(w, a, start, sizes, incr, offs, t, val, accept) ==
    FanOut(w.store, w, a, start, sizes, incr, offs, t, val, accept)

\* A tile loop that goes on to the next tile after a failed one.
RECURSIVE WriteTilesOn(_, _, _, _, _, _, _, _, _)
WriteTilesOn(w, a, start, sizes, incr, offs, t, val, accept) ==
    IF t > Len(offs) THEN w
    ELSE IF ~val.isnd THEN [w EXCEPT !.err = "TypeError"]
    ELSE IF Len(val.shape) < 3 THEN [w EXCEPT !.err = "IndexError"]
    ELSE LET off == offs[t]
             cs  == TileShape(sizes, incr, off)
             st  == Add3(off, start)
         IN WriteTilesOn(SetChunk(w, a, st[1], st[2], st[3], Slice3(val, off, cs), accept),
                         a, start, sizes, incr, offs, t + 1, val, accept)

RECURSIVE WriteTiles(_, _, _, _, _, _, _, _, _)
WriteTiles(w, a, start, sizes, incr, offs, t, val, accept) ==
    IF t > Len(offs) \/ w.err # "ok" THEN w
    ELSE IF ~val.isnd THEN [w EXCEPT !.err = "TypeError"]
    ELSE IF Len(val.shape) < 3 THEN [w EXCEPT !.err = "IndexError"]
    ELSE LET off == offs[t]
             cs  == TileShape(sizes, incr, off)
             st  == Add3(off, start)
         IN WriteTiles(SetChunk(w, a, st[1], st[2], st[3], Slice3(val, off, cs), accept),
                       a, start, sizes, incr, offs, t + 1, val, accept)

\* __setitem__ after its two checks: the ranges are unpacked and val is
\* stored, in tiles when the ranges hold more than MAX_REQ_SIZE cells
StoreVal(w, a, n, val, accept) ==
    IF IsOneTuple(n) THEN [w EXCEPT !.err = "AttributeError"]
    ELSE LET r     == RangesZYX(n)
             sizes == Sizes3(r)
             start == Start3(r)
         IN IF sizes[1] * sizes[2] * sizes[3] > a.maxreq
            THEN LET incr == Increments(sizes, a.maxreq)
                 IN IF incr = <<0, 0, 0>> THEN [w EXCEPT !.err = "hang"]
                    ELSE WriteTiles(w, a, start, sizes, incr,
                                    TileOffsets(sizes, incr), 1, val, accept)
            ELSE SetChunk(w, a, start[1], start[2], start[3], val, accept)

\* The dimension check taken for a bound: fewer entries than axes pass.
SetItemFewer(w, a, index, val, accept) ==
    LET n == NormalizeIndex(index)
    IN IF n.dimsreq > a.numdims THEN [w EXCEPT !.err = "DimensionMismatch"]
       ELSE IF a.locked THEN [w EXCEPT !.err = "ReadOnlyArray"]
       ELSE StoreVal(w, a, n, val, accept)

\* The locked flag of the handle left unread.
SetItemUnlocked(w, a, index, val, accept) ==
    LET n == NormalizeIndex(index)
    IN IF a.numdims # n.dimsreq THEN [w EXCEPT !.err = "DimensionMismatch"]
       ELSE StoreVal(w, a, n, val, accept)

\* __setitem__(index, val): the world after, err holding the exception
SetItem(w, a, index, val, accept) ==
    LET n == NormalizeIndex(index)
    IN IF a.numdims # n.dimsreq THEN [w EXCEPT !.err = "DimensionMismatch"]
       ELSE IF a.locked THEN [w EXCEPT !.err = "ReadOnlyArray"]
       ELSE StoreVal(w, a, n, val, accept)

\* The slices end at MaxPoint itself, the "+ 1" left out.
GetExtentsInclusive(w, a) ==
    LET mn == IF w.minpoint # <<>> THEN w.minpoint ELSE <<0, 0, 0>>
        mx == IF w.maxpoint # <<>> THEN w.maxpoint ELSE <<-1, -1, -1>>
        zs == PSlice(mn[3], mx[3])
        ys == PSlice(mn[2], mx[2])
        xs == PSlice(mn[1], mx[1])
    IN IF a.numdims = 3 THEN <<zs, ys, xs>>
       ELSE IF a.numdims = 2 THEN <<ys, xs>>
       ELSE <<xs>>

\* get_extents(): one slice per axis of the array, from MinPoint and MaxPoint
GetExtents(w, a) ==
    LET mn == IF w.minpoint # <<>> THEN w.minpoint ELSE <<0, 0, 0>>
        mx == IF w.maxpoint # <<>> THEN w.maxpoint ELSE <<-1, -1, -1>>
        zs == PSlice(mn[3], mx[3] + 1)
        ys == PSlice(mn[2], mx[2] + 1)
        xs == PSlice(mn[1], mx[1] + 1)
    IN IF a.numdims = 3 THEN <<zs, ys, xs>>
       ELSE IF a.numdims = 2 THEN <<ys, xs>>
       ELSE <<xs>>

-----------------------------------------------------------------------------
(* The handles, indexes and buffers explored.                               *)

\* BlockSize of the instance create_array makes, as x, y, z
BlockSizeOf(dims) ==
    IF dims = 3 THEN <<BLKSIZE3D, BLKSIZE3D, BLKSIZE3D>>
    ELSE IF dims = 2 THEN <<BLKSIZE2D, BLKSIZE2D, 1>>
    ELSE <<BLKSIZE1D, 1, 1>>

Handles ==
    [numdims : 1..3, dtype : ArrayDtype, locked : BOOLEAN, maxreq : Caps,
     blocksize : {BlockSizeOf(d) : d \in 1..3}]

\* the coordinates requests use on each axis: negative x for the arrays of
\* one and two dimensions only, and two more cells of x for a 1D array,
\* whose blocks are longer and whose requests are tiled along x alone
XLo(a) == IF a.numdims = 3 THEN 0 ELSE -XNeg
XTop(a) == XHi + (IF a.numdims = 1 THEN 2 ELSE 0)
XCoords(a) == XLo(a)..XTop(a)
YCoords(a) == IF a.numdims >= 2 THEN 0..YHi ELSE {0}
ZCoords(a) == IF a.numdims = 3 THEN 0..ZHi ELSE {0}

FloorTo(c, blk) == c - (c % blk)
CeilTo(c, blk) == c + ((blk - (c % blk)) % blk)

\* the cells modelled: whole blocks around the coordinates addressed, with
\* room for a buffer one cell longer than its range
UniverseLo(a) == <<0, 0, FloorTo(XLo(a), a.blocksize[1])>>
UniverseHi(a) ==
    <<CeilTo(ZHi + 1, a.blocksize[3]) - 1,
      CeilTo(YHi + 1, a.blocksize[2]) - 1,
      CeilTo(XTop(a) + 2, a.blocksize[1]) - 1>>
Universe(a) ==
    {<<z, y, x>> : z \in UniverseLo(a)[1]..UniverseHi(a)[1],
                   y \in UniverseLo(a)[2]..UniverseHi(a)[2],
                   x \in UniverseLo(a)[3]..UniverseHi(a)[3]}

\* the entries over the coordinates: each int, each non-empty slice
Entries(coords) ==
    {PInt(k) : k \in coords}
    \cup {PSlice(s, c + 1) : <<s, c>> \in {p \in coords \X coords : p[1] <= p[2]}}

\* an index of the array's own number of entries, over the coordinates
OwnIndexes(a) ==
    IF a.numdims = 1 THEN Entries(XCoords(a))
    ELSE IF a.numdims = 2
    THEN {PTuple(<<y, x>>) : y \in Entries(YCoords(a)), x \in Entries(XCoords(a))}
    ELSE {PTuple(<<z, y, x>>) : z \in Entries(ZCoords(a)), y \in Entries(YCoords(a)),
                                x \in Entries(XCoords(a))}

\* indexes of 1 to 4 entries at the origin: a bare int, a bare slice, tuples
OriginIndexes ==
    {PInt(0), PSlice(0, 1)}
    \cup {PTuple(t) : t \in UNION {[1..m -> {PInt(0), PSlice(0, 1)}] : m \in 1..3}}
    \cup {PTuple(<<PInt(0), PInt(0), PInt(0), PSlice(0, 1)>>)}

Indexes(a) == OwnIndexes(a) \cup OriginIndexes

IsSlices(index) ==
    IF index.t = "tuple" THEN \A k \in 1..Len(index.items) : index.items[k].t = "slice"
    ELSE index.t = "slice"

\* The indexes __setitem__ is called with: an int entry is replaced by its
\* slice before anything else is done, so away from the origin only
\* slices are supplied.
WriteIndexes(a) == {i \in OwnIndexes(a) : IsSlices(i)} \cup OriginIndexes

\* position of index tuple i in row-major order
Lin(i, shape) ==
    IF Len(shape) = 0 THEN 0
    ELSE IF Len(shape) = 1 THEN i[1]
    ELSE IF Len(shape) = 2 THEN i[1] * shape[2] + i[2]
    ELSE (i[1] * shape[2] + i[2]) * shape[3] + i[3]

\* more than the cells of any buffer explored
Stride == (ZHi + 1) * (YHi + 1) * (XNeg + XHi + 4)

\* The buffer of the given shape and type that the k-th write supplies:
\* every element differs, no element is 0, and a uint16 buffer holds
\* values that do not fit uint8.
Buffer(shape, dtype, k) ==
    NdArray(shape, dtype,
            [i \in Box(shape) |->
               (IF dtype = "uint16" THEN 256 ELSE 0) + Stride * k + Lin(i, shape) + 1])

\* the values supplied with an index of ranges r: buffers of the ranges'
\* shape (3D, or of the array's rank), of either type; the 3D buffer with
\* its axes of length 1 dropped; a buffer one cell longer in x; a number
Vals(a, r, k) ==
    LET sizes == Sizes3(r)
    IN {Buffer(sizes, dt, k) : dt \in ArrayDtype}
       \cup {Buffer(SubSeq(sizes, 4 - a.numdims, 3), dt, k) : dt \in ArrayDtype}
       \cup {SqueezeAll(Buffer(sizes, a.dtype, k))}
       \cup {Buffer(<<sizes[1], sizes[2], sizes[3] + 1>>, a.dtype, k)}
       \cup {PyInt(5)}

\* the ranges of an index that passes the checks of the handlers
HasRanges(a, n) == a.numdims = n.dimsreq /\ ~IsOneTuple(n)

ValsFor(a, index, k) ==
    IF HasRanges(a, NormalizeIndex(index))
    THEN Vals(a, RangesZYX(NormalizeIndex(index)), k)
    ELSE {Buffer(<<1, 1, 1>>, a.dtype, k)}

\* every cell a call with these arguments can address is modelled
Modelled(a, index, shape) ==
    LET n == NormalizeIndex(index)
        r == RangesZYX(n)
        zyx == ShapeZYX(shape)
    IN HasRanges(a, n) =>
         \A k \in 1..3 :
            /\ Start3(r)[k] >= UniverseLo(a)[k]
            /\ Start3(r)[k] + Max(Sizes3(r)[k], zyx[k]) - 1 <= UniverseHi(a)[k]

\* whether the node service takes a buffer it may refuse is open only for
\* a buffer that is not a 3D array of the instance's type
Accepts(a, val) ==
    IF val.isnd /\ Len(val.shape) = 3 /\ val.dtype = a.dtype THEN {TRUE} ELSE BOOLEAN

-----------------------------------------------------------------------------
(* The state machine: one client calling the handlers of one array.         *)

\* The array calls are explored on one array by itself: no server state
\* beyond the instance's cells, no repo object, no repo call.
NoServer ==
    [repos |-> {}, nextuuid |-> 1, nodes |-> {}, locked |-> {}, parent |-> <<>>,
     files |-> <<>>, instances |-> {}]
NoRepo ==
    [uuid |-> 0, locked |-> FALSE, alluuids |-> {}, allinstances |-> {},
     activeinstances |-> {}]
NoRepoCall ==
    [op |-> "none", name |-> "", uuid |-> 0, outcome |-> "ok", value |-> <<>>,
     sent |-> <<>>, fresh |-> FALSE]

\* Calls are explored whole: no loop is followed pass by pass.
NoLoop ==
    [sizes |-> <<>>, cap |-> 0, incr |-> <<>>, prev |-> <<>>, axis |-> 0, pc |-> "none"]

NoCall ==
    [op |-> "none", index |-> PyNone, ranges |-> <<>>, single |-> <<>>, val |-> PyNone,
     outcome |-> "ok", value |-> PyNone, extents |-> <<>>, failat |-> 0,
     errreq |-> <<>>]

Init ==
    /\ arr \in {h \in Handles : h.blocksize = BlockSizeOf(h.numdims)}
    /\ store = [c \in Universe(arr) |-> 0]
    /\ minpoint = <<>>
    /\ maxpoint = <<>>
    /\ last = NoCall
    /\ reqs = <<>>
    /\ pre = [store |-> store, minpoint |-> <<>>, maxpoint |-> <<>>]
    /\ nwrites = 0
    /\ dvid = NoServer
    /\ repo = NoRepo
    /\ handles = {}
    /\ call = NoRepoCall
    /\ loop = NoLoop
    /\ writers = <<>>

\* The client makes another call: the last one returned (an exception, or a
\* call that never returns, ends the client), fewer than MaxWrites calls of
\* __setitem__ have been made, and the last call was not __getitem__ or
\* get_extents, which leave the array as they found it (the calls that can
\* follow them are those explored from the state before them).
CanCall ==
    /\ last.outcome = "ok"
    /\ last.op \in {"none", "setitem"}
    /\ nwrites < MaxWrites

Snapshot == [store |-> store, minpoint |-> minpoint, maxpoint |-> maxpoint]

\* The service as the call about to be made finds it: it fails on request
\* failat of the call, or on none (0), with an exception that names the
\* request or does not.
Service(failat, named) ==
    [World(store, minpoint, maxpoint) EXCEPT !.failat = failat, !.named = named]

\* what the exception of a failure at failat may say
Namings(failat) == IF failat = 0 THEN {FALSE} ELSE BOOLEAN

\* The requests at which the service may fail: any of the first MaxFailAt
\* of a call made before FaultCalls calls of __setitem__ have been made.
FailAts == IF nwrites < FaultCalls THEN 0..MaxFailAt ELSE {0}

\* the call got as far as the request the service fails on
Reached(w, failat) == failat = 0 \/ Len(w.reqs) >= failat

\* arr[index] = val
SetItemCall(index, val, accept, failat, named) ==
    /\ CanCall
    /\ Modelled(arr, index, val.shape)
    /\ \E n \in {NormalizeIndex(index)},
          w \in {SetItem(Service(failat, named), arr, index, val, accept)} :
          /\ Reached(w, failat)
          /\ store' = w.store
          /\ minpoint' = w.minpoint
          /\ maxpoint' = w.maxpoint
          /\ reqs' = w.reqs
          /\ last' = [op |-> "setitem", index |-> index,
                      ranges |-> IF HasRanges(arr, n) THEN RangesZYX(n) ELSE <<>>,
                      single |-> <<>>, val |-> val, outcome |-> w.err,
                      value |-> PyNone, extents |-> <<>>, failat |-> failat,
                      errreq |-> w.errreq]
    /\ pre' = Snapshot
    /\ nwrites' = nwrites + 1
    /\ UNCHANGED <<arr, repovars, loop, writers>>

\* arr[index]
GetItemCall(index, failat, named) ==
    /\ CanCall
    /\ Modelled(arr, index, <<>>)
    /\ \E n \in {NormalizeIndex(index)},
          g \in {GetItem(Service(failat, named), arr, index)} :
          /\ Reached(g.w, failat)
          /\ reqs' = g.w.reqs
          /\ last' = [op |-> "getitem", index |-> index,
                      ranges |-> IF HasRanges(arr, n) THEN RangesZYX(n) ELSE <<>>,
                      single |-> n.single, val |-> PyNone, outcome |-> g.outcome,
                      value |-> g.value, extents |-> <<>>, failat |-> failat,
                      errreq |-> g.w.errreq]
    /\ pre' = Snapshot
    /\ UNCHANGED <<arr, store, minpoint, maxpoint, nwrites, repovars, loop, writers>>

\* arr.get_extents()
GetExtentsCall ==
    /\ CanCall
    /\ last' = [NoCall EXCEPT !.op = "get_extents",
                              !.extents = GetExtents(World(store, minpoint, maxpoint), arr)]
    /\ reqs' = <<>>
    /\ pre' = Snapshot
    /\ UNCHANGED <<arr, store, minpoint, maxpoint, nwrites, repovars, loop, writers>>

Next ==
    \/ /\ CanCall
       /\ \E index \in WriteIndexes(arr) :
            \E val \in ValsFor(arr, index, nwrites) :
              \E accept \in Accepts(arr, val), failat \in FailAts :
                \E named \in Namings(failat) :
                  SetItemCall(index, val, accept, failat, named)
    \/ /\ CanCall
       /\ \E index \in Indexes(arr), failat \in FailAts :
            \E named \in Namings(failat) : GetItemCall(index, failat, named)
    \/ GetExtentsCall

Spec == Init /\ [][Next]_vars

-----------------------------------------------------------------------------
(* Vocabulary of the properties.                                            *)

\* the instance as the client finds it now, no request sent yet
Now == World(store, minpoint, maxpoint)

\* number of entries of an index: a bare int or slice counts as one
NumEntries(index) == IF index.t = "tuple" THEN Len(index.items) ELSE 1

\* the last call was a __setitem__ that returned
Wrote == last.op = "setitem" /\ last.outcome = "ok"

\* the extents of ranges r on the axes of the array (all three for 3D, y
\* and x for 2D, x for 1D)
RegionShape(a, r) == SubSeq(Sizes3(r), 4 - a.numdims, 3)

\* buffer val has the shape of the ranges r: on the axes of the array, or
\* on all three axes
ShapeMatches(a, r, val) ==
    val.isnd /\ (val.shape = RegionShape(a, r) \/ val.shape = Sizes3(r))

\* the index of ranges only that addresses r in array a
RegionIndex(a, r) ==
    IF a.numdims = 3 THEN PTuple(r)
    ELSE IF a.numdims = 2 THEN PTuple(<<r[2], r[3]>>)
    ELSE r[3]

\* the same cells: the same shape and the same element at every position
\* (a 3D buffer given for an array of fewer axes is compared on those axes)
SameCells(a, got, val) ==
    /\ got.isnd
    /\ got.shape = SubSeq(val.shape, Len(val.shape) - Len(got.shape) + 1, Len(val.shape))
    /\ \A i \in Box(got.shape) :
          got.at[i] = Broadcast3(val, [k \in 1..3 |->
                         IF k <= 3 - Len(got.shape) THEN 0 ELSE i[k - (3 - Len(got.shape))]])

\* cell c lies in the ranges r
InRanges(c, r) == InBox(c, Start3(r), Sizes3(r))

\* the stored cells and the bounding box are as they were before the call
Untouched ==
    /\ store = pre.store
    /\ minpoint = pre.minpoint
    /\ maxpoint = pre.maxpoint

-----------------------------------------------------------------------------
(* Round trip and frame of __setitem__.                                     *)

\* what arr[R] returns now, R being the ranges of the last call
ReadBack == GetItem(Now, arr, RegionIndex(arr, last.ranges))

\* C1: after a write of a buffer whose shape matches the ranges has
\* returned, a read of the same ranges returns the buffer, cell for cell
\* (arrays of 1, 2 and 3 dimensions, aligned or not, tiled or not).
RoundTrip ==
    (Wrote /\ ShapeMatches(arr, last.ranges, last.val)) =>
        /\ ReadBack.outcome = "ok"
        /\ SameCells(arr, ReadBack.value, last.val)

\* The round trip of a buffer of the array's own element type.
RoundTripOwnType ==
    (Wrote /\ ShapeMatches(arr, last.ranges, last.val) /\ last.val.dtype = arr.dtype) =>
        /\ ReadBack.outcome = "ok"
        /\ SameCells(arr, ReadBack.value, last.val)

\* a tiled write of a buffer of the array's type, over data written before
RoundTripOwnTypeReached ==
    /\ Wrote /\ ShapeMatches(arr, last.ranges, last.val) /\ last.val.dtype = arr.dtype
    /\ nwrites = 2
    /\ Len(reqs) > 2
    /\ \E c \in DOMAIN store : InRanges(c, last.ranges) /\ pre.store[c] # 0

\* C2: after a write has returned, every stored cell outside the ranges
\* written holds the value it had before the call, the cells of the blocks
\* that were fetched, merged and put again included (the buffer having the
\* shape of the ranges).
NeighboursKept ==
    (Wrote /\ ShapeMatches(arr, last.ranges, last.val)) =>
        \A c \in DOMAIN store : ~InRanges(c, last.ranges) => store[c] = pre.store[c]

\* an unaligned write (a get came first) whose put covers a cell outside
\* the ranges that held data before, and holds it still
NeighboursKeptReached ==
    /\ Wrote /\ ShapeMatches(arr, last.ranges, last.val)
    /\ Len(reqs) >= 2 /\ reqs[1].op = "get"
    /\ \E c \in DOMAIN store :
          /\ ~InRanges(c, last.ranges)
          /\ \E k \in 1..Len(reqs) :
                reqs[k].op = "put" /\ InBox(c, reqs[k].origin, reqs[k].shape)
          /\ pre.store[c] # 0
          /\ store[c] = pre.store[c]

-----------------------------------------------------------------------------
(* Tiling of __getitem__.                                                   *)

\* what one get of the whole of the ranges r returns
Untiled(w, a, r) == GetArray(w, a, Sizes3(r), Start3(r)).data

\* every choice of increments within the sizes
AllIncrements(sizes) ==
    {<<i, j, k>> : i \in 1..sizes[1], j \in 1..sizes[2], k \in 1..sizes[3]}

\* C3: for every region read and every request cap, the data __getitem__
\* assembles from its tiles is the data one get of the whole region
\* returns from the same store; so is the data assembled with any other
\* increments, whichever axis a halving rule picks; and the value the call
\* returned is that data, squeezed.
TilingTransparent ==
    (last.op = "getitem" /\ last.ranges # <<>>) =>
        LET r     == last.ranges
            sizes == Sizes3(r)
            whole == Untiled(Now, arr, r)
        IN /\ \A cap \in 1..Product(sizes) :
                 LET rd == ReadData(Now, arr, r, cap)
                 IN rd.w.err = "ok" => rd.data = whole
           /\ \A incr \in AllIncrements(sizes) :
                 ReadTiles(Now, arr, Start3(r), sizes, incr, TileOffsets(sizes, incr), 1,
                           Zeros(sizes, arr.dtype)).data = whole
           /\ last.outcome = "ok" =>
                 last.value = SqueezeResult(arr, last.single, whole).value

\* a read the handle tiled, its last tile clamped, over a region of which
\* some cells hold data and some were never written
TilingTransparentReached ==
    /\ last.op = "getitem" /\ last.outcome = "ok"
    /\ Len(reqs) >= 2
    /\ \E j, k \in 1..Len(reqs) : reqs[j].shape # reqs[k].shape
    /\ \E c \in DOMAIN store : InRanges(c, last.ranges) /\ store[c] # 0
    /\ \E c \in DOMAIN store : InRanges(c, last.ranges) /\ store[c] = 0

\* C4: every request __getitem__ sends is a get of no more cells than
\* the request cap.
ReadRequestsCapped ==
    last.op = "getitem" =>
        \A k \in 1..Len(reqs) :
            reqs[k].op = "get" /\ Product(reqs[k].shape) <= arr.maxreq

\* a read of more cells than the cap of MAX_REQ_SIZE, served by tiles of
\* which one holds as many cells as the cap allows
ReadRequestsCappedReached ==
    /\ last.op = "getitem" /\ last.outcome = "ok"
    /\ arr.maxreq = MAX_REQ_SIZE
    /\ Product(Sizes3(last.ranges)) > arr.maxreq
    /\ \E k \in 1..Len(reqs) : Product(reqs[k].shape) = arr.maxreq

\* C5: every request __setitem__ sends, the get and the put of the
\* block-aligned box of a tile included, is of no more cells than the
\* request cap (a cap that admits a block, as the program's does).
WriteRequestsCapped ==
    (last.op = "setitem" /\ Product(arr.blocksize) <= arr.maxreq) =>
        \A k \in 1..Len(reqs) : Product(reqs[k].shape) <= arr.maxreq

-----------------------------------------------------------------------------
(* The checks of the handlers.                                              *)

\* C6: a read or a write with an index whose number of entries is not the
\* number of dimensions of the array fails with the dimension error,
\* sends no request and leaves the stored data as it was.
DimensionMismatchRaised ==
    (last.op \in {"getitem", "setitem"} /\ NumEntries(last.index) # arr.numdims) =>
        /\ last.outcome = "DimensionMismatch"
        /\ reqs = <<>>
        /\ Untouched

\* a write with an index of the wrong number of entries, to an array that
\* holds data
DimensionMismatchReached ==
    /\ last.op = "setitem" /\ NumEntries(last.index) # arr.numdims
    /\ last.outcome = "DimensionMismatch"
    /\ ~arr.locked
    /\ \E c \in DOMAIN store : store[c] # 0

\* C7, as stated: a write through a handle that is locked raises the
\* read-only error before any request is sent; the data and the extents
\* are unchanged.
ReadOnlyRaised ==
    (last.op = "setitem" /\ arr.locked) =>
        /\ last.outcome = "ReadOnlyArray"
        /\ reqs = <<>>
        /\ Untouched

\* C7, amended: a write through a locked handle sends no request and
\* changes neither data nor extents; it raises the read-only error when
\* the index has as many entries as the array has dimensions, and the
\* dimension error, which is checked first, when it has not.
ReadOnlyRaisedAfterDims ==
    (last.op = "setitem" /\ arr.locked) =>
        /\ last.outcome = IF NumEntries(last.index) = arr.numdims
                          THEN "ReadOnlyArray" ELSE "DimensionMismatch"
        /\ reqs = <<>>
        /\ Untouched

\* a write of a buffer of the right shape and type, to ranges of a locked
\* handle, refused
ReadOnlyReached ==
    /\ last.op = "setitem" /\ arr.locked
    /\ last.ranges # <<>>
    /\ ShapeMatches(arr, last.ranges, last.val) /\ last.val.dtype = arr.dtype
    /\ last.outcome = "ReadOnlyArray"

\* C8: a write of a buffer whose element type is not the array's fails,
\* when the box written is block aligned and when it is merged into the
\* blocks fetched alike, and nothing is stored.
TypeMismatchRaised ==
    (/\ last.op = "setitem" /\ last.ranges # <<>> /\ ~arr.locked
     /\ last.outcome # "hang"
     /\ last.val.isnd /\ last.val.dtype # arr.dtype) =>
        /\ last.outcome # "ok"
        /\ store = pre.store

-----------------------------------------------------------------------------
(* Squeezing of the result of __getitem__.                                  *)

\* the entries of an index, a bare entry being the only one
EntriesOf(index) == IF index.t = "tuple" THEN index.items ELSE <<index>>

\* the axes (1 = z, 2 = y, 3 = x) that the index of array a addresses by
\* a range, in their order
RangeAxes(a, index) ==
    SelectSeq([k \in 1..3 |-> k],
              LAMBDA k : k > 3 - a.numdims /\ EntriesOf(index)[k - (3 - a.numdims)].t = "slice")

\* the result the index stands for: the cells of its ranges on the axes
\* addressed by a range, a bare number when there is none
Expected(w, a, index) ==
    LET r     == RangesZYX(NormalizeIndex(index))
        whole == Untiled(w, a, r)
        axes  == RangeAxes(a, index)
        shape == [j \in 1..Len(axes) |-> Sizes3(r)[axes[j]]]
    IN IF Len(axes) = 0 THEN PyInt(whole.at[<<0, 0, 0>>])
       ELSE [isnd |-> TRUE, shape |-> shape, dtype |-> a.dtype,
             at |-> [i \in Box(shape) |->
                       whole.at[[k \in 1..3 |->
                          IF \E j \in 1..Len(axes) : axes[j] = k
                          THEN i[CHOOSE j \in 1..Len(axes) : axes[j] = k]
                          ELSE 0]]]]

\* C9: for arrays of 1, 2 and 3 dimensions and every mix of ints and
\* ranges in the index, a read that ends returns the cells on exactly
\* the axes addressed by a range, in their order (a range of length 1
\* stays an axis), and a bare number when every entry is an int.
SqueezeCorrect ==
    (/\ last.op = "getitem" /\ last.ranges # <<>>
     /\ last.outcome # "hang") =>
        /\ last.outcome = "ok"
        /\ last.value = Expected(Now, arr, last.index)

\* The same, for every read but that of a 1D array by an int.
SqueezeCorrectBut1DInt ==
    (/\ last.op = "getitem" /\ last.ranges # <<>>
     /\ last.outcome # "hang"
     /\ ~(arr.numdims = 1 /\ last.index.t = "int")) =>
        /\ last.outcome = "ok"
        /\ last.value = Expected(Now, arr, last.index)

-----------------------------------------------------------------------------
(* Extents.                                                                 *)

\* nothing has been stored
Unwritten == \A c \in DOMAIN store : store[c] = 0

\* the block length on the axis of the j-th slice get_extents returns
BlockOnAxis(a, j) == a.blocksize[a.numdims + 1 - j]

\* C10: in every state get_extents returns the empty range [0, 0) on each
\* axis when nothing has been stored, and otherwise ranges whose lengths
\* are multiples of the block length of their axis.
ExtentInvariant ==
    LET e == GetExtents(Now, arr)
    IN /\ Len(e) = arr.numdims
       /\ IF Unwritten
          THEN \A j \in 1..Len(e) : e[j] = PSlice(0, 0)
          ELSE \A j \in 1..Len(e) :
                  /\ e[j].b > e[j].a
                  /\ (e[j].b - e[j].a) % BlockOnAxis(arr, j) = 0

\* get_extents called after an unaligned write, the extents reaching
\* below 0 and spanning more than one block on some axis
ExtentInvariantReached ==
    /\ last.op = "get_extents"
    /\ ~Unwritten
    /\ \E j \in 1..Len(last.extents) :
          /\ last.extents[j].a < 0
          /\ last.extents[j].b - last.extents[j].a > BlockOnAxis(arr, j)

\* the extents get_extents returned before the last call
ExtentsBefore == GetExtents(World(pre.store, pre.minpoint, pre.maxpoint), arr)

\* the multiple of blk that is the nearest at or below c, at or above c
BlockFloor(c, blk) == CHOOSE m \in (c - blk + 1)..c : m % blk = 0
BlockCeil(c, blk) == CHOOSE m \in c..(c + blk - 1) : m % blk = 0

\* the range of ranges r on the axis of the j-th slice of get_extents
RangeOnAxis(a, r, j) == r[j + 3 - a.numdims]

\* C11: after a write of a buffer of the shape of the ranges R has
\* returned, tiled or not, get_extents returns on every axis the hull of
\* what it returned before and of the smallest range of whole blocks that
\* contains R; after a first write, that smallest range itself.
ExtentGrowth ==
    (Wrote /\ ShapeMatches(arr, last.ranges, last.val)) =>
        LET e == GetExtents(Now, arr)
        IN \A j \in 1..arr.numdims :
              LET lo == BlockFloor(RangeOnAxis(arr, last.ranges, j).a, BlockOnAxis(arr, j))
                  hi == BlockCeil(RangeOnAxis(arr, last.ranges, j).b, BlockOnAxis(arr, j))
              IN IF pre.minpoint = <<>>
                 THEN e[j] = PSlice(lo, hi)
                 ELSE e[j] = PSlice(Min(ExtentsBefore[j].a, lo), Max(ExtentsBefore[j].b, hi))

\* a second write, tiled and not aligned, that made the extents grow
ExtentGrowthReached ==
    /\ Wrote /\ ShapeMatches(arr, last.ranges, last.val)
    /\ nwrites = 2
    /\ Len(reqs) > 2
    /\ reqs[1].op = "get"
    /\ GetExtents(Now, arr) # ExtentsBefore

\* range p lies within range q; an empty range lies within any
Within(p, q) == p.a >= p.b \/ (q.a <= p.a /\ p.b <= q.b)

\* C12: a call of __getitem__ sends no put and leaves what get_extents
\* returns unchanged, also when it reads cells outside the extents; after
\* a call of __setitem__ the extents contain the extents before it on
\* every axis.
ExtentMonotone ==
    [][/\ last'.op = "getitem" =>
             /\ GetExtents(Now, arr)' = GetExtents(Now, arr)
             /\ \A k \in 1..Len(reqs') : reqs'[k].op = "get"
       /\ last'.op = "setitem" =>
             \A j \in 1..arr.numdims :
                 Within(GetExtents(Now, arr)[j], GetExtents(Now, arr)'[j])]_vars

\* a read that returned cells outside the extents of an array that holds
\* data
ExtentMonotoneReached ==
    /\ last.op = "getitem" /\ last.outcome = "ok"
    /\ ~Unwritten
    /\ \E j \in 1..arr.numdims :
          RangeOnAxis(arr, last.ranges, j).b > GetExtents(Now, arr)[j].b

-----------------------------------------------------------------------------
(* Block alignment of the puts of __setitem__.                              *)

\* the tiles of the last call of __setitem__, as <<origin, shape>>: the
\* box of the buffer when the ranges are within the cap, the tiles of the
\* walk otherwise
TilesOfWrite ==
    LET sizes == Sizes3(last.ranges)
        start == Start3(last.ranges)
        incr  == Increments(sizes, arr.maxreq)
        offs  == TileOffsets(sizes, incr)
    IN IF Product(sizes) <= arr.maxreq THEN << <<start, ShapeZYX(last.val.shape)>> >>
       ELSE [t \in 1..Len(offs) |-> <<Add3(offs[t], start), TileShape(sizes, incr, offs[t])>>]

\* the puts among the requests of the last call
Puts == SelectSeq(reqs, LAMBDA q : q.op = "put")

\* the block length on axis k (1 = z, 2 = y, 3 = x)
BlockZYX(a, k) == a.blocksize[4 - k]

\* box <<o, s>> is the smallest box of whole blocks that covers the tile
\* <<to, ts>>
SmallestCover(a, o, s, to, ts) ==
    \A k \in 1..3 :
        /\ o[k] % BlockZYX(a, k) = 0
        /\ s[k] % BlockZYX(a, k) = 0
        /\ to[k] - BlockZYX(a, k) < o[k] /\ o[k] <= to[k]
        /\ o[k] + s[k] >= to[k] + ts[k]
        /\ o[k] + s[k] < to[k] + ts[k] + BlockZYX(a, k)

\* origins and sizes around 0 on which the alignment is evaluated
AlignDomain == (-2 * BLKSIZE1D)..(2 * BLKSIZE1D)

\* C13: every put sent by __setitem__ has an origin and a shape that are
\* multiples of the block shape; the put of each tile of a write that
\* returned is the smallest such box that covers the tile, its origin
\* within one block below the tile's; and so is the box _setchunk
\* computes for any origin, negative, zero or positive.
PutsAligned ==
    last.op = "setitem" =>
        /\ \A k \in 1..Len(Puts) : \A i \in 1..3 :
              /\ Puts[k].origin[i] % BlockZYX(arr, i) = 0
              /\ Puts[k].shape[i] % BlockZYX(arr, i) = 0
        /\ Wrote =>
              /\ Len(Puts) = Len(TilesOfWrite)
              /\ \A k \in 1..Len(Puts) :
                    SmallestCover(arr, Puts[k].origin, Puts[k].shape,
                                  TilesOfWrite[k][1], TilesOfWrite[k][2])
              /\ \A c \in AlignDomain : \A n \in 1..(2 * BLKSIZE1D) :
                    SmallestCover(arr, AlignedOrigin(arr, c, c, c),
                                  AlignedShape(arr, c, c, c, <<n, n, n>>),
                                  <<c, c, c>>, <<n, n, n>>)

\* a tiled write at a negative origin whose tiles are put in boxes of
\* more cells than the tiles
PutsAlignedReached ==
    /\ Wrote
    /\ Len(Puts) >= 2
    /\ \E i \in 1..3 : Start3(last.ranges)[i] < 0
    /\ \E k \in 1..Len(Puts) : Puts[k].origin # TilesOfWrite[k][1]

-----------------------------------------------------------------------------
(* Reads of cells never written.                                            *)

\* the data the last call of __getitem__ collected, before squeezing
DataRead == ReadData(Now, arr, last.ranges, arr.maxreq).data

\* the value returned has 0 for every cell of the ranges that no write
\* has given a value, and every cell of the ranges lies in the box of
\* exactly one get
ZeroFilled ==
    /\ last.value = SqueezeResult(arr, last.single, DataRead).value
    /\ \A c \in DOMAIN store :
          InRanges(c, last.ranges) =>
             /\ store[c] = 0 => DataRead.at[Sub3(c, Start3(last.ranges))] = 0
             /\ Cardinality({k \in 1..Len(reqs) :
                               InBox(c, reqs[k].origin, reqs[k].shape)}) = 1

\* C14: a read of ranges that contain cells never written, once it ends,
\* has raised no error and returns 0 for each such cell, whether it is
\* served by one get or by tiles, each cell being filled by exactly one
\* tile.
ZeroFill ==
    (/\ last.op = "getitem" /\ last.ranges # <<>>
     /\ \E c \in DOMAIN store : InRanges(c, last.ranges) /\ store[c] = 0
     /\ last.outcome # "hang") =>
        /\ last.outcome = "ok"
        /\ ZeroFilled

\* The same, for every read but that of a 1D array by an int.
ZeroFillWhenReturned ==
    (/\ last.op = "getitem" /\ last.ranges # <<>>
     /\ \E c \in DOMAIN store : InRanges(c, last.ranges) /\ store[c] = 0
     /\ last.outcome # "hang"
     /\ ~(arr.numdims = 1 /\ last.index.t = "int")) =>
        /\ last.outcome = "ok"
        /\ ZeroFilled

\* a tiled read of ranges that hold data in some cells and none in others
ZeroFillWhenReturnedReached ==
    /\ last.op = "getitem" /\ last.outcome = "ok"
    /\ Len(reqs) >= 2
    /\ \E c \in DOMAIN store : InRanges(c, last.ranges) /\ store[c] = 0
    /\ \E c \in DOMAIN store : InRanges(c, last.ranges) /\ store[c] # 0
    /\ ZeroFilled

-----------------------------------------------------------------------------
(* Failure of the service in the middle of a tiled write                    *)

\* the last call was a write of a 3D buffer of the ranges' shape, stored
\* in tiles, during which the service failed
TiledWriteFailed ==
    /\ last.op = "setitem" /\ last.failat # 0
    /\ last.ranges # <<>> /\ Product(Sizes3(last.ranges)) > arr.maxreq
    /\ last.val.isnd /\ last.val.shape = Sizes3(last.ranges)

\* the tiles whose put was served before the request that failed
TilesDone == Len(Puts) - (IF reqs[Len(reqs)].op = "put" THEN 1 ELSE 0)

\* C15: when the service fails on the get or the put of tile k of a tiled
\* write, the call raises the service's error, the failed request is the
\* last one sent and is the get or put of tile k, and the store holds the
\* caller's data in the tiles before k and what it held before the call
\* everywhere else.
PartialFailure ==
    TiledWriteFailed =>
        LET tiles == TilesOfWrite
            k     == TilesDone + 1
            req   == reqs[Len(reqs)]
        IN /\ last.outcome = "StoreError"
           /\ Len(reqs) = last.failat
           /\ k <= Len(tiles)
           /\ SmallestCover(arr, req.origin, req.shape, tiles[k][1], tiles[k][2])
           /\ \A j \in 1..(k - 1) :
                 SmallestCover(arr, Puts[j].origin, Puts[j].shape, tiles[j][1], tiles[j][2])
           /\ \A c \in DOMAIN store :
                 store[c] = IF \E j \in 1..(k - 1) : InBox(c, tiles[j][1], tiles[j][2])
                            THEN Cast(Broadcast3(last.val, Sub3(c, Start3(last.ranges))),
                                      arr.dtype)
                            ELSE pre.store[c]

\* the service failed on the second tile or later of a tiled write, and
\* the store is no longer what it was before the call
PartialFailureReached ==
    /\ TiledWriteFailed /\ last.outcome = "StoreError"
    /\ TilesDone >= 1 /\ TilesDone < Len(TilesOfWrite)
    /\ store # pre.store

-----------------------------------------------------------------------------
(* What the caller learns of a failure in a tiled call                      *)

\* the last call was a read made in tiles during which the service failed
TiledReadFailed ==
    /\ last.op = "getitem" /\ last.failat # 0
    /\ last.ranges # <<>> /\ Product(Sizes3(last.ranges)) > arr.maxreq

\* the exception of the last call carries the origin and the shape of tile
TileCarried(tile) ==
    /\ last.errreq # <<>>
    /\ last.errreq[1].origin = tile[1] /\ last.errreq[1].shape = tile[2]

-----------------------------------------------------------------------------
(* DicedRepo: one repo object on one repository of the DVID server.  UUIDs  *)
(* are numbered in the order DVID creates them.                             *)

\* versions are created until MaxVersions exist, handles are obtained
\* until MaxHandles are held
MaxVersions == 3
MaxHandles == 2
ArrayNames == {"a", "b"}
FileNames == {"f"}

\* _init_version(uuid): the node's Locked flag, the UUIDs of the DAG and the
\* data instances are read from /repo/<uuid>/info
InitVersion(d, r, uuid) ==
    [r EXCEPT !.uuid = uuid,
              !.locked = uuid \in d.locked,
              !.alluuids = d.nodes,
              !.allinstances = d.instances,
              !.activeinstances = d.instances]

\* what a method of DicedRepo leaves: the server, the object, the exception
\* raised ("ok" for none), the value returned, the requests sent
Result(d, r, outcome, value, sent) ==
    [dvid |-> d, repo |-> r, outcome |-> outcome, value |-> value, sent |-> sent]

\* lock_node(message)
LockNode(d, r) ==
    IF r.locked THEN Result(d, r, "DicedException", <<>>, <<>>)
    ELSE Result([d EXCEPT !.locked = @ \union {r.uuid}], [r EXCEPT !.locked = TRUE],
                "ok", <<>>, <<"commit">>)

\* DVID's /branch: a child node of uuid, open, seeing the files of uuid
ServerBranch(d, uuid) ==
    [d EXCEPT !.nodes = @ \union {d.nextuuid},
              !.parent = d.nextuuid :> uuid @@ @,
              !.files = d.nextuuid :> d.files[uuid] @@ @,
              !.nextuuid = @ + 1]

\* The lock check of create_branch left out: an open node is branched.
CreateBranchOpen(d, r) ==
    Result(ServerBranch(d, r.uuid), [r EXCEPT !.alluuids = @ \union {d.nextuuid}],
           "ok", <<d.nextuuid>>, <<"branch">>)

\* create_branch(message): the UUID of the child
CreateBranch(d, r) ==
    IF ~r.locked THEN Result(d, r, "DicedException", <<>>, <<>>)
    ELSE Result(ServerBranch(d, r.uuid), [r EXCEPT !.alluuids = @ \union {d.nextuuid}],
                "ok", <<d.nextuuid>>, <<"branch">>)

\* change_version(uuid)
ChangeVersion(d, r, uuid) ==
    IF \E tuuid \in r.alluuids : tuuid = uuid
    THEN Result(d, InitVersion(d, r, uuid), "ok", <<>>, <<"info">>)
    ELSE Result(d, r, "DicedException", <<>>, <<>>)

\* The DicedArray a method of DicedRepo returns: a 3D uint8 array of the
\* version the object is at, with the locked flag it is constructed with
Handle(name, uuid, locked) == [name |-> name, uuid |-> uuid, locked |-> locked]

\* The lock check of create_array left out.
CreateArrayUnchecked(d, r, name) ==
    IF name \in r.allinstances THEN Result(d, r, "DicedException", <<>>, <<>>)
    ELSE LET d1 == [d EXCEPT !.instances = @ \union {name}]
         IN Result(d1, InitVersion(d1, r, r.uuid), "ok",
                   <<Handle(name, r.uuid, FALSE)>>, <<"instance", "info", "meta">>)

\* create_array(name, dtype): the instance is posted, the version is read
\* again, and the handle is constructed with locked = False
CreateArray(d, r, name) ==
    IF r.locked THEN Result(d, r, "DicedException", <<>>, <<>>)
    ELSE IF name \in r.allinstances THEN Result(d, r, "DicedException", <<>>, <<>>)
    ELSE LET d1 == [d EXCEPT !.instances = @ \union {name}]
         IN Result(d1, InitVersion(d1, r, r.uuid), "ok",
                   <<Handle(name, r.uuid, FALSE)>>, <<"instance", "info", "meta">>)

\* get_array(name): the handle is constructed with the object's locked
RepoGetArray(d, r, name) ==
    IF name \in r.activeinstances
    THEN Result(d, r, "ok", <<Handle(name, r.uuid, r.locked)>>, <<"meta">>)
    ELSE Result(d, r, "DicedException", <<>>, <<>>)

\* upload_filedata(dataname, data)
UploadFiledata(d, r, dataname) ==
    IF r.locked THEN Result(d, r, "DicedException", <<>>, <<>>)
    ELSE Result([d EXCEPT !.files[r.uuid] = @ \union {dataname}], r, "ok", <<>>, <<"put">>)

\* delete_file(filename)
DeleteFile(d, r, filename) ==
    IF r.locked THEN Result(d, r, "DicedException", <<>>, <<>>)
    ELSE Result([d EXCEPT !.files[r.uuid] = @ \ {filename}], r, "ok", <<>>, <<"delete">>)

\* the handle as the array calls know it
HandleArray(h) ==
    [numdims |-> 3, dtype |-> "uint8", locked |-> h.locked, maxreq |-> MAX_REQ_SIZE,
     blocksize |-> BlockSizeOf(3)]

\* arr[0:1, 0:1, 0:1] = a buffer of one uint8 cell, through handle h; DVID
\* refuses the put (refused) or takes it
WriteThrough(h, refused) ==
    LET a == HandleArray(h)
        w == [World([c \in Universe(a) |-> 0], <<>>, <<>>)
                EXCEPT !.failat = IF refused THEN 2 ELSE 0]
    IN SetItem(w, a, PTuple(<<PSlice(0, 1), PSlice(0, 1), PSlice(0, 1)>>),
               Buffer(<<1, 1, 1>>, "uint8", 0), TRUE)

\* the state after DicedRepo(server, uuid, dicedstore) on a new repository:
\* one open root node, no array, no file
NewServer ==
    [repos |-> {[alias |-> "r", root |-> 1]}, nextuuid |-> 2, nodes |-> {1},
     locked |-> {}, parent |-> 1 :> 0, files |-> 1 :> {}, instances |-> {}]

InitRepo ==
    /\ arr = [numdims |-> 3, dtype |-> "uint8", locked |-> FALSE, maxreq |-> MAX_REQ_SIZE,
              blocksize |-> BlockSizeOf(3)]
    /\ store = [c \in Universe(arr) |-> 0]
    /\ minpoint = <<>>
    /\ maxpoint = <<>>
    /\ last = NoCall
    /\ reqs = <<>>
    /\ pre = [store |-> store, minpoint |-> <<>>, maxpoint |-> <<>>]
    /\ nwrites = 0
    /\ dvid = NewServer
    /\ repo = InitVersion(NewServer, NoRepo, 1)
    /\ handles = {}
    /\ call = NoRepoCall
    /\ loop = NoLoop
    /\ writers = <<>>

\* the call of a method of the repo object that left res
Called(op, name, res) ==
    /\ dvid' = res.dvid
    /\ repo' = res.repo
    /\ call' = [op |-> op, name |-> name, uuid |-> repo.uuid, outcome |-> res.outcome,
                value |-> res.value, sent |-> res.sent,
                fresh |-> name \notin dvid.instances]
    /\ UNCHANGED <<arrayvars, loop, writers>>

LockNodeCall == Called("lock_node", "", LockNode(dvid, repo)) /\ UNCHANGED handles

CreateBranchCall ==
    /\ dvid.nextuuid <= MaxVersions
    /\ Called("create_branch", "", CreateBranch(dvid, repo))
    /\ UNCHANGED handles

ChangeVersionCall(uuid) ==
    Called("change_version", "", ChangeVersion(dvid, repo, uuid)) /\ UNCHANGED handles

\* a call that returns a DicedArray, which the client keeps
Obtained(op, name, res) ==
    /\ Cardinality(handles \union {res.value[k] : k \in 1..Len(res.value)}) <= MaxHandles
    /\ Called(op, name, res)
    /\ handles' = handles \union {res.value[k] : k \in 1..Len(res.value)}

CreateArrayCall(name) == Obtained("create_array", name, CreateArray(dvid, repo, name))

GetArrayCall(name) == Obtained("get_array", name, RepoGetArray(dvid, repo, name))

UploadFiledataCall(name) ==
    Called("upload_filedata", name, UploadFiledata(dvid, repo, name)) /\ UNCHANGED handles

DeleteFileCall(name) ==
    Called("delete_file", name, DeleteFile(dvid, repo, name)) /\ UNCHANGED handles

\* a write through one of the handles held; what DVID does with a put to a
\* locked node is DVID's: it refuses it or takes it
WriteCall(h, refused) ==
    /\ refused => h.uuid \in dvid.locked
    /\ \E w \in {WriteThrough(h, refused)} :
          call' = [op |-> "write", name |-> h.name, uuid |-> h.uuid, outcome |-> w.err,
                   value |-> <<h>>, sent |-> [k \in 1..Len(w.reqs) |-> w.reqs[k].op],
                   fresh |-> FALSE]
    /\ UNCHANGED <<arrayvars, dvid, repo, handles, loop, writers>>

NextRepo ==
    \/ LockNodeCall
    \/ CreateBranchCall
    \/ \E uuid \in 1..(MaxVersions + 1) : ChangeVersionCall(uuid)
    \/ \E name \in ArrayNames : CreateArrayCall(name)
    \/ \E name \in ArrayNames : GetArrayCall(name)
    \/ \E name \in FileNames : UploadFiledataCall(name)
    \/ \E name \in FileNames : DeleteFileCall(name)
    \/ \E h \in handles, refused \in BOOLEAN : WriteCall(h, refused)

SpecRepo == InitRepo /\ [][NextRepo]_vars

-----------------------------------------------------------------------------
(* Handles and the lock of their version                                    *)

\* C17: once lock_node has succeeded on a version, a write through any
\* handle of that version, obtained before the lock or after it, raises
\* ReadOnlyArray and sends nothing; and a handle that is read-only is a
\* handle of a locked version, which no call opens again.
WritabilityFollowsLock ==
    /\ (call.op = "write" /\ call.uuid \in dvid.locked) =>
          call.outcome = "ReadOnlyArray" /\ call.sent = <<>>
    /\ \A h \in handles : h.locked => h.uuid \in dvid.locked

-----------------------------------------------------------------------------
(* Lock, then branch                                                        *)

\* C18: create_branch on an open version raises DicedException and creates
\* no version; lock_node on a locked version raises DicedException; after
\* a lock_node that returned the version is locked, on the server and in
\* the repo object; create_branch returns only on a locked version, and
\* what it returns is the UUID of a new node, a child of the current
\* version and different from it.
LockThenBranch ==
    [][/\ (call'.op = "create_branch" /\ repo.uuid \notin dvid.locked) =>
             /\ call'.outcome = "DicedException"
             /\ dvid'.nodes = dvid.nodes /\ call'.sent = <<>>
       /\ (call'.op = "lock_node" /\ repo.uuid \in dvid.locked) =>
             call'.outcome = "DicedException" /\ dvid' = dvid
       /\ (call'.op = "lock_node" /\ call'.outcome = "ok") =>
             /\ repo.uuid \notin dvid.locked
             /\ repo.uuid \in dvid'.locked /\ repo'.locked /\ repo'.uuid = repo.uuid
       /\ (call'.op = "create_branch" /\ call'.outcome = "ok") =>
             /\ repo.uuid \in dvid.locked
             /\ call'.value # <<repo.uuid>>
             /\ call'.value[1] \notin dvid.nodes
             /\ dvid'.nodes = dvid.nodes \union {call'.value[1]}
             /\ dvid'.parent[call'.value[1]] = repo.uuid
             /\ call'.value[1] \notin dvid'.locked
      ]_vars

\* a version was branched after it was locked, and the child was locked
\* and branched in its turn
LockThenBranchReached ==
    /\ call.op = "create_branch" /\ call.outcome = "ok"
    /\ call.uuid = 2 /\ dvid.parent[2] = 1 /\ dvid.locked = {1, 2}
    /\ call.value = <<3>>

-----------------------------------------------------------------------------
(* Mutations through the repo object of a locked version                    *)

Mutations == {"create_array", "upload_filedata", "delete_file"}

\* C19: create_array, upload_filedata and delete_file each raise
\* DicedException while the current version is locked, sending nothing to
\* the server and changing nothing on it; on an open version, a child of a
\* locked one included, upload_filedata and delete_file return, and so
\* does create_array of a name not in use.
LockedRejectsMutation ==
    [][call'.op \in Mutations =>
          /\ repo.uuid \in dvid.locked =>
                /\ call'.outcome = "DicedException"
                /\ call'.sent = <<>>
                /\ dvid' = dvid /\ handles' = handles
          /\ (repo.uuid \notin dvid.locked
                /\ (call'.op = "create_array" => call'.name \notin dvid.instances)) =>
                /\ call'.outcome = "ok"
                /\ call'.sent # <<>>
                /\ call'.op = "upload_filedata" => call'.name \in dvid'.files[repo.uuid]
                /\ call'.op = "delete_file" => call'.name \notin dvid'.files[repo.uuid]
                /\ call'.op = "create_array" => call'.name \in dvid'.instances
      ]_vars

\* an array was created in the open child of a locked version, to which
\* the repo object moved with change_version
LockedRejectsMutationReached ==
    /\ call.op = "create_array" /\ call.outcome = "ok"
    /\ repo.uuid = 2 /\ dvid.parent[2] = 1 /\ 1 \in dvid.locked /\ 2 \notin dvid.locked

-----------------------------------------------------------------------------
(* DicedStore: the repositories of the server                               *)

\* repositories are created until MaxRepos root UUIDs have been given out
MaxRepos == 4
RepoNames == {"a", "b", "c"}

\* DVIDServerService.create_new_repo(name, description): a repository
\* with a new root node; DVID does not require aliases to be unique
ServerCreateRepo(d, name) ==
    [d EXCEPT !.repos = @ \union {[alias |-> name, root |-> d.nextuuid]},
              !.nodes = @ \union {d.nextuuid},
              !.parent = d.nextuuid :> 0 @@ @,
              !.files = d.nextuuid :> {} @@ @,
              !.nextuuid = @ + 1]

\* list_repos(): the (name, uuid) pairs of /repos/info
ListRepos(d) == {<<r.alias, r.root>> : r \in d.repos}

\* create_repo without the look at the names in use.
CreateRepoUnchecked(d, name, fails) ==
    IF fails THEN [dvid |-> d, outcome |-> "DicedException"]
    ELSE [dvid |-> ServerCreateRepo(d, name), outcome |-> "ok"]

\* create_repo(name): fails stands for a DVIDException of the server,
\* which is raised again as a DicedException
CreateRepo(d, name, fails) ==
    IF \E p \in ListRepos(d) : p[1] = name THEN [dvid |-> d, outcome |-> "DicedException"]
    ELSE IF fails THEN [dvid |-> d, outcome |-> "DicedException"]
    ELSE [dvid |-> ServerCreateRepo(d, name), outcome |-> "ok"]

\* get_repouuid(name): the UUIDs it may return, none when it raises
GetRepoUuid(d, name) == {p[2] : p \in {q \in ListRepos(d) : q[1] = name}}

\* "dvid repos delete <uuid>"
ServerDeleteRepo(d, uuid) == [d EXCEPT !.repos = {r \in @ : r.root # uuid}]

\* DicedStore(location) on a new database: no repository
InitStore ==
    /\ arr = [numdims |-> 3, dtype |-> "uint8", locked |-> FALSE, maxreq |-> MAX_REQ_SIZE,
              blocksize |-> BlockSizeOf(3)]
    /\ store = [c \in Universe(arr) |-> 0]
    /\ minpoint = <<>>
    /\ maxpoint = <<>>
    /\ last = NoCall
    /\ reqs = <<>>
    /\ pre = [store |-> store, minpoint |-> <<>>, maxpoint |-> <<>>]
    /\ nwrites = 0
    /\ dvid = NoServer
    /\ repo = NoRepo
    /\ handles = {}
    /\ call = NoRepoCall
    /\ loop = NoLoop
    /\ writers = <<>>

CreateRepoCall(name, fails) ==
    /\ dvid.nextuuid <= MaxRepos
    /\ \E res \in {CreateRepo(dvid, name, fails)} :
          /\ dvid' = res.dvid
          /\ call' = [NoRepoCall EXCEPT !.op = "create_repo", !.name = name,
                                        !.outcome = res.outcome]
    /\ UNCHANGED <<arrayvars, repo, handles, loop, writers>>

DeleteRepoCall(name) ==
    /\ \/ /\ GetRepoUuid(dvid, name) = {}
          /\ dvid' = dvid
          /\ call' = [NoRepoCall EXCEPT !.op = "delete_repo", !.name = name,
                                        !.outcome = "DicedException"]
       \/ \E uuid \in GetRepoUuid(dvid, name) :
             /\ dvid' = ServerDeleteRepo(dvid, uuid)
             /\ call' = [NoRepoCall EXCEPT !.op = "delete_repo", !.name = name,
                                           !.value = <<uuid>>]
    /\ UNCHANGED <<arrayvars, repo, handles, loop, writers>>

ListReposCall ==
    /\ call' = [NoRepoCall EXCEPT !.op = "list_repos", !.value = <<ListRepos(dvid)>>]
    /\ UNCHANGED <<arrayvars, dvid, repo, handles, loop, writers>>

NextStore ==
    \/ \E name \in RepoNames, fails \in BOOLEAN : CreateRepoCall(name, fails)
    \/ \E name \in RepoNames : DeleteRepoCall(name)
    \/ ListReposCall

SpecStore == InitStore /\ [][NextStore]_vars

\* C20: after any sequence of create_repo and delete_repo calls, made one
\* at a time, list_repos holds no two repositories of the same name, and
\* a create_repo of a name that is listed raises DicedException and adds
\* no repository.
UniqueRepoNames ==
    [][/\ \A p, q \in ListRepos(dvid') : p[1] = q[1] => p = q
       /\ call'.op = "list_repos" =>
             \A p, q \in call'.value[1] : p[1] = q[1] => p = q
       /\ (call'.op = "create_repo" /\ \E p \in ListRepos(dvid) : p[1] = call'.name) =>
             call'.outcome = "DicedException" /\ ListRepos(dvid') = ListRepos(dvid)
      ]_vars

\* a name was created, deleted and created again under a new UUID beside
\* another repository, and creating it once more was refused
UniqueRepoNamesReached ==
    /\ call.op = "create_repo" /\ call.outcome = "DicedException"
    /\ \E p \in ListRepos(dvid) : p[1] = call.name /\ p[2] > 2
    /\ Cardinality(ListRepos(dvid)) = 2

-----------------------------------------------------------------------------
(* The "split into chunks" loop of __getitem__ and __setitem__, followed    *)
(* pass by pass.  The two methods hold the same loop.                       *)

\* ranges of 1 .. MaxExtent cells on each axis, caps of 1 .. MaxCap cells
MaxExtent == 4
MaxCap == 12

\* the axis (1 = z, 2 = y, 3 = x) whose increment a pass of the loop halves
HalvedAxis(incr) ==
    IF incr[1] > incr[2] /\ incr[1] > incr[3] THEN 1
    ELSE IF incr[2] > incr[1] /\ incr[2] > incr[3] THEN 2
    ELSE 3

\* the call has found zsize*ysize*xsize > MAX_REQ_SIZE and has set
\* zincr, yincr, xincr to the sizes
InitLoop ==
    /\ arr = [numdims |-> 3, dtype |-> "uint8", locked |-> FALSE, maxreq |-> MAX_REQ_SIZE,
              blocksize |-> BlockSizeOf(3)]
    /\ store = [c \in Universe(arr) |-> 0]
    /\ minpoint = <<>>
    /\ maxpoint = <<>>
    /\ last = NoCall
    /\ reqs = <<>>
    /\ pre = [store |-> store, minpoint |-> <<>>, maxpoint |-> <<>>]
    /\ nwrites = 0
    /\ dvid = NoServer
    /\ repo = NoRepo
    /\ handles = {}
    /\ call = NoRepoCall
    /\ writers = <<>>
    /\ \E zsize \in 1..MaxExtent, ysize \in 1..MaxExtent, xsize \in 1..MaxExtent,
          cap \in 1..MaxCap :
          /\ zsize * ysize * xsize > cap
          /\ loop = [sizes |-> <<zsize, ysize, xsize>>, cap |-> cap,
                     incr |-> <<zsize, ysize, xsize>>, prev |-> <<>>, axis |-> 0,
                     pc |-> "while"]

\* the loop test holds: one pass of the body
HalvePass ==
    /\ loop.pc = "while"
    /\ loop.incr[1] * loop.incr[2] * loop.incr[3] > loop.cap
    /\ loop' = [loop EXCEPT !.prev = loop.incr, !.axis = HalvedAxis(loop.incr),
                            !.incr = HalveStep(loop.incr)]
    /\ UNCHANGED <<arrayvars, repovars, writers>>

\* the loop test fails: on to the three nested "for" loops
LeaveLoop ==
    /\ loop.pc = "while"
    /\ loop.incr[1] * loop.incr[2] * loop.incr[3] <= loop.cap
    /\ loop' = [loop EXCEPT !.pc = "tiles"]
    /\ UNCHANGED <<arrayvars, repovars, writers>>

\* the tiles are walked (range(0, size, incr) is finite for incr >= 1) and
\* the call returns
WalkTiles ==
    /\ loop.pc = "tiles"
    /\ \A k \in 1..3 : loop.incr[k] >= 1
    /\ loop' = [loop EXCEPT !.pc = "returned"]
    /\ UNCHANGED <<arrayvars, repovars, writers>>

NextLoop == HalvePass \/ LeaveLoop \/ WalkTiles

\* the interpreter goes on running the call: a step that can be taken is
\* taken
SpecLoop ==
    /\ InitLoop /\ [][NextLoop]_vars
    /\ WF_vars(HalvePass) /\ WF_vars(LeaveLoop) /\ WF_vars(WalkTiles)

\* C21: for every region of extents >= 1 whose volume exceeds the cap
\* (cap >= 1), the halving loop ends, with every increment >= 1 and the
\* product of the increments <= cap, and the call returns.
TilingTerminates ==
    /\ <>(loop.pc = "returned")
    /\ [](loop.pc \in {"tiles", "returned"} =>
             /\ \A k \in 1..3 : loop.incr[k] >= 1
             /\ loop.incr[1] * loop.incr[2] * loop.incr[3] <= loop.cap)

\* C22: in every pass of the halving loop the axis halved is one whose
\* increment is the largest of the three.
HalvesLargest ==
    loop.axis # 0 =>
        \A k \in 1..3 : loop.prev[loop.axis] >= loop.prev[k]

-----------------------------------------------------------------------------
(* The tiles of a read                                                      *)

\* the last call was a read that passed its checks and that the service
\* did not fail
ReadServed == last.op = "getitem" /\ last.ranges # <<>> /\ last.failat = 0

\* origin p comes before origin q in row-major order (z outermost)
RowMajorBefore(p, q) ==
    \/ p[1] < q[1]
    \/ p[1] = q[1] /\ p[2] < q[2]
    \/ p[1] = q[1] /\ p[2] = q[2] /\ p[3] < q[3]

\* boxes <<o1, s1>> and <<o2, s2>> share no cell
Disjoint(o1, s1, o2, s2) ==
    \E k \in 1..3 : o1[k] + s1[k] <= o2[k] \/ o2[k] + s2[k] <= o1[k]

\* the requests of the last call are the tile set of its ranges: one get of
\* the region itself when its volume is within the cap; otherwise gets of
\* non-empty boxes, in row-major order, at steps of some increments from
\* the region's origin, each of the increment's length or what is left of
\* the region, pairwise disjoint and covering exactly the region
TilesOfRegion ==
    LET sizes == Sizes3(last.ranges)
        start == Start3(last.ranges)
    IN /\ \A k \in 1..Len(reqs) : reqs[k].op = "get"
       /\ IF Product(sizes) <= arr.maxreq
          THEN reqs = <<[op |-> "get", origin |-> start, shape |-> sizes]>>
          ELSE /\ \A k \in 1..Len(reqs) : \A i \in 1..3 : reqs[k].shape[i] >= 1
               /\ \A j, k \in 1..Len(reqs) :
                     j < k => /\ RowMajorBefore(reqs[j].origin, reqs[k].origin)
                              /\ Disjoint(reqs[j].origin, reqs[j].shape,
                                          reqs[k].origin, reqs[k].shape)
               /\ \A k \in 1..Len(reqs) : \A i \in 1..3 :
                     /\ reqs[k].origin[i] >= start[i]
                     /\ reqs[k].origin[i] + reqs[k].shape[i] <= start[i] + sizes[i]
               /\ \A c \in Box(sizes) :
                     \E k \in 1..Len(reqs) : InBox(Add3(start, c), reqs[k].origin, reqs[k].shape)
               /\ \E incr \in AllIncrements(sizes) :
                     \A k \in 1..Len(reqs) : \A i \in 1..3 :
                        /\ (reqs[k].origin[i] - start[i]) % incr[i] = 0
                        /\ reqs[k].shape[i] =
                              Min(sizes[i] - (reqs[k].origin[i] - start[i]), incr[i])

\* C23: a region of volume <= the cap (equality included) is served by
\* exactly one request, of the region's origin and shape; a larger region
\* is walked in row-major order in steps of the increments, the last tile
\* on each axis clamped, the tiles non-empty, pairwise disjoint and
\* covering exactly the region.
TileSet == ReadServed => TilesOfRegion

\* C23 for the reads whose halving loop ends
TileSetWhenLoopEnds == (ReadServed /\ last.outcome # "hang") => TilesOfRegion

\* a tiled read whose last tile is clamped, and a read of exactly as many
\* cells as the cap
TileSetWhenLoopEndsReached ==
    /\ ReadServed /\ last.outcome = "ok"
    /\ \/ /\ Len(reqs) >= 2
          /\ \E j, k \in 1..Len(reqs) : reqs[j].shape # reqs[k].shape
       \/ /\ Product(Sizes3(last.ranges)) = arr.maxreq /\ arr.maxreq > 1

-----------------------------------------------------------------------------
(* The tiles of a write and the tiles of a read                             *)

\* the last call was a write, by an open handle and with no failure of the
\* service, of a buffer of the array's type and rank and of the ranges'
\* shape, to ranges above the cap for which the halving loop ends
TiledWriteOfOwnRank ==
    /\ last.op = "setitem" /\ last.ranges # <<>> /\ last.failat = 0
    /\ ~arr.locked
    /\ last.val.isnd /\ last.val.dtype = arr.dtype
    /\ last.val.shape = RegionShape(arr, last.ranges)
    /\ Product(Sizes3(last.ranges)) > arr.maxreq
    /\ Increments(Sizes3(last.ranges), arr.maxreq) # <<0, 0, 0>>

\* the gets a read of the ranges of the last call sends
ReadTilesOf == ReadData(Now, arr, last.ranges, arr.maxreq).w.reqs

\* C24: for an array of 1, 2 or 3 dimensions and a region above the cap, a
\* write of a buffer of the array's rank returns, its puts are one per tile
\* of the read of that region, in the same order, each the block box of
\* its tile, and each cell of the region holds the element of the buffer
\* at the cell's offset.
WriteMirrorsRead ==
    TiledWriteOfOwnRank =>
        /\ last.outcome = "ok"
        /\ Len(Puts) = Len(ReadTilesOf)
        /\ \A k \in 1..Len(Puts) :
              SmallestCover(arr, Puts[k].origin, Puts[k].shape,
                            ReadTilesOf[k].origin, ReadTilesOf[k].shape)
        /\ \A c \in Box(Sizes3(last.ranges)) :
              store[Add3(Start3(last.ranges), c)] =
                 last.val.at[SubSeq(c, 4 - arr.numdims, 3)]

\* C24 for the arrays of three dimensions
WriteMirrorsRead3D == arr.numdims = 3 => WriteMirrorsRead

-----------------------------------------------------------------------------
(* The requests of each tile of a write                                     *)

\* the last call was a write that returned, with no failure of the
\* service, of a buffer of the array's type and of the ranges' shape
WroteMatching ==
    /\ Wrote /\ last.ranges # <<>> /\ last.failat = 0
    /\ ShapeMatches(arr, last.ranges, last.val) /\ last.val.dtype = arr.dtype

\* origin and shape of tile t are multiples of the block shape
TileAligned(a, t) ==
    \A i \in 1..3 : t[1][i] % BlockZYX(a, i) = 0 /\ t[2][i] % BlockZYX(a, i) = 0

\* the number of requests the tiles before tile k account for: one for an
\* aligned tile, two for any other
RECURSIVE RequestsBefore(_, _, _)
RequestsBefore(a, tiles, k) ==
    IF k <= 1 THEN 0
    ELSE RequestsBefore(a, tiles, k - 1) + (IF TileAligned(a, tiles[k - 1]) THEN 1 ELSE 2)

\* the block box of tile t: origin floored, end raised to block boundaries
CoverOrigin(a, t) == [i \in 1..3 |-> BlockFloor(t[1][i], BlockZYX(a, i))]
CoverShape(a, t) ==
    [i \in 1..3 |-> BlockCeil(t[1][i] + t[2][i], BlockZYX(a, i)) - CoverOrigin(a, t)[i]]

\* the element of the caller's buffer for cell c of the ranges
CallerData(c) == Broadcast3(last.val, Sub3(c, Start3(last.ranges)))

\* what a get sent for tile k returns for cell c: the caller's data where
\* an earlier tile of the call lies, otherwise the cell as it was before
\* the call
GetReturned(tiles, k, c) ==
    IF \E j \in 1..(k - 1) : InBox(c, tiles[j][1], tiles[j][2])
    THEN CallerData(c) ELSE pre.store[c]

\* C25: a tile whose origin and shape are multiples of the block shape
\* causes exactly one put(o, s, data) of the caller's data and no get;
\* every other tile causes exactly one get(alignedOrigin, alignedShape)
\* and then one put(alignedOrigin, alignedShape, merged), where merged holds
\* the caller's data at offset o - alignedOrigin and what the get returned
\* everywhere else; and the call sends nothing more.
TileProtocol ==
    WroteMatching =>
        LET tiles == TilesOfWrite
        IN /\ Len(reqs) = RequestsBefore(arr, tiles, Len(tiles) + 1)
           /\ \A k \in 1..Len(tiles) :
                 LET p  == RequestsBefore(arr, tiles, k) + 1
                     o  == tiles[k][1]
                     sh == tiles[k][2]
                     ao == CoverOrigin(arr, tiles[k])
                     as == CoverShape(arr, tiles[k])
                 IN IF TileAligned(arr, tiles[k])
                    THEN /\ reqs[p].op = "put"
                         /\ reqs[p].origin = o /\ reqs[p].shape = sh
                         /\ \A i \in Box(sh) :
                               Broadcast3(reqs[p].data, i) = CallerData(Add3(o, i))
                    ELSE /\ reqs[p] = [op |-> "get", origin |-> ao, shape |-> as]
                         /\ reqs[p + 1].op = "put"
                         /\ reqs[p + 1].origin = ao /\ reqs[p + 1].shape = as
                         /\ \A i \in Box(as) :
                               Broadcast3(reqs[p + 1].data, i) =
                                  IF InBox(Add3(ao, i), o, sh)
                                  THEN CallerData(Add3(ao, i))
                                  ELSE GetReturned(tiles, k, Add3(ao, i))

\* a write of one aligned tile over data written before, and a write of
\* several tiles whose block boxes hold cells written before
TileProtocolReached ==
    /\ WroteMatching /\ nwrites = 2
    /\ \E c \in DOMAIN pre.store : pre.store[c] # 0 /\ ~InRanges(c, last.ranges)
    /\ Len(TilesOfWrite) >= 2
    /\ \E k \in 1..Len(TilesOfWrite) : ~TileAligned(arr, TilesOfWrite[k])

\* a write made of one aligned tile: one put and no get
AlignedTileReached ==
    /\ WroteMatching /\ Len(TilesOfWrite) = 1
    /\ TileAligned(arr, TilesOfWrite[1]) /\ Len(reqs) = 1

-----------------------------------------------------------------------------
(* Tiles of one write whose block boxes overlap                             *)

\* tiles j and k of the last write are put in block boxes that share cells
BoxesOverlap(j, k) ==
    ~Disjoint(CoverOrigin(arr, TilesOfWrite[j]), CoverShape(arr, TilesOfWrite[j]),
              CoverOrigin(arr, TilesOfWrite[k]), CoverShape(arr, TilesOfWrite[k]))

\* C26: within one write the get and the put of a tile are both done
\* before the get of the next tile is sent (no get follows another get,
\* and the last request is a put), and when two tiles of the call round
\* to overlapping block boxes the store holds the caller's data of both
\* tiles afterwards, every cell of the ranges included.
TilesSerialized ==
    WroteMatching =>
        /\ reqs[Len(reqs)].op = "put"
        /\ \A p \in 2..Len(reqs) : reqs[p].op = "get" => reqs[p - 1].op = "put"
        /\ \A j, k \in 1..Len(TilesOfWrite) :
              (j < k /\ BoxesOverlap(j, k)) =>
                 \A c \in DOMAIN store :
                    (InBox(c, TilesOfWrite[j][1], TilesOfWrite[j][2])
                       \/ InBox(c, TilesOfWrite[k][1], TilesOfWrite[k][2]))
                    => store[c] = CallerData(c)
        /\ \A c \in DOMAIN store : InRanges(c, last.ranges) => store[c] = CallerData(c)

\* a write of two tiles or more of which two share a block
TilesSerializedReached ==
    /\ WroteMatching
    /\ \E j, k \in 1..Len(TilesOfWrite) : j < k /\ BoxesOverlap(j, k)

-----------------------------------------------------------------------------
(* Writes one after another against a plain array of cells                   *)

\* the cells of a plain array after ranges r of it are assigned buffer val
\* of the shape of r
PlainWrite(cells, r, val) ==
    [c \in DOMAIN cells |->
       IF InRanges(c, r) THEN Broadcast3(val, Sub3(c, Start3(r))) ELSE cells[c]]

\* ranges r of a plain array of cells
PlainRead(cells, a, r) ==
    NdArray(Sizes3(r), a.dtype, [i \in Box(Sizes3(r)) |-> cells[Add3(Start3(r), i)]])

\* the last call was a read of a region (ranges only) the service served
ReadRegion ==
    /\ last.op = "getitem" /\ last.ranges # <<>> /\ last.failat = 0
    /\ IsSlices(last.index)

\* C28: writes made one after another refine a plain array of cells whose
\* cells all start at 0: each write that returns leaves every cell of its
\* ranges with the element the buffer gives it and every other cell as it
\* was, and a read of any region returns, and returns the cells of that
\* array (the latest value written to each, 0 where none was).
RefinesPlainArray ==
    /\ (Wrote /\ last.ranges # <<>>) =>
          /\ \A c \in DOMAIN store : ~InRanges(c, last.ranges) => store[c] = pre.store[c]
          /\ ShapeMatches(arr, last.ranges, last.val) =>
                store = PlainWrite(pre.store, last.ranges, last.val)
    /\ ReadRegion =>
          /\ last.outcome = "ok"
          /\ last.value = SqueezeResult(arr, last.single,
                                        PlainRead(store, arr, last.ranges)).value

\* The same for buffers of the array's element type and of the shape of the
\* ranges, and for reads whose halving loop ends.
RefinesPlainArrayOwnBuffers ==
    /\ (Wrote /\ ShapeMatches(arr, last.ranges, last.val) /\ last.val.dtype = arr.dtype) =>
          store = PlainWrite(pre.store, last.ranges, last.val)
    /\ (ReadRegion /\ last.outcome # "hang") =>
          /\ last.outcome = "ok"
          /\ last.value = SqueezeResult(arr, last.single,
                                        PlainRead(store, arr, last.ranges)).value

\* C29: after a write has returned, every stored cell outside the ranges
\* of the index holds the value it had before the call, whatever the shape
\* and the rank of the buffer supplied.
WriteStaysInRanges ==
    (Wrote /\ last.ranges # <<>>) =>
        \A c \in DOMAIN store : ~InRanges(c, last.ranges) => store[c] = pre.store[c]

\* The same for a buffer of as many axes as the array, or of three, none
\* of them longer than the ranges.
WriteStaysInRangesFitting ==
    (/\ Wrote /\ last.ranges # <<>>
     /\ Len(last.val.shape) \in {arr.numdims, 3}
     /\ \A k \in 1..3 : ShapeZYX(last.val.shape)[k] <= Sizes3(last.ranges)[k]) =>
        \A c \in DOMAIN store : ~InRanges(c, last.ranges) => store[c] = pre.store[c]

-----------------------------------------------------------------------------
(* Two clients writing to one array at the same time.  Each runs its own    *)
(* __setitem__; the requests of the two calls reach the server in any       *)
(* order, one at a time.                                                    *)

Writers == {1, 2}

\* the arrays written to: open, of one or two dimensions, of either cap
ConcHandles ==
    {h \in Handles : /\ h.numdims \in {1, 2} /\ h.blocksize = BlockSizeOf(h.numdims)
                     /\ h.dtype = "uint8" /\ ~h.locked /\ h.maxreq = MAX_REQ_SIZE}

\* the box of data is block aligned (blockaligned of _setchunk)
BlockAligned(a, z, y, x, orig) ==
    AlignedOrigin(a, z, y, x) = <<z, y, x>> /\ AlignedShape(a, z, y, x, orig) = orig

\* _setchunk up to its first request: the put of an aligned box, or the
\* get of the block box of a box that is not aligned
SetChunkFirst(w, a, z, y, x, data) ==
    LET orig == ShapeZYX(data.shape)
        new  == AlignedOrigin(a, z, y, x)
        size == AlignedShape(a, z, y, x, orig)
    IN IF BlockAligned(a, z, y, x, orig)
       THEN [w |-> PutArray(w, a, data, new, TRUE), data |-> PyNone]
       ELSE GetChunk(w, a, new[1], new[2], new[3], size[1], size[2], size[3])

\* A merge into the cells as the server holds them when the put is sent,
\* not into the array the get returned.
SetChunkSecondFresh(w, a, z, y, x, data, got) ==
    LET orig == ShapeZYX(data.shape)
        new  == AlignedOrigin(a, z, y, x)
        now  == NdArray(got.shape, got.dtype,
                        [i \in Box(got.shape) |->
                           IF Add3(new, i) \in DOMAIN w.store
                           THEN w.store[Add3(new, i)] ELSE 0])
    IN PutArray(w, a, AssignSlice3(now, Sub3(<<z, y, x>>, new), orig, data), new, TRUE)

\* _setchunk from the array the get returned: the merge and the put
SetChunkSecond(w, a, z, y, x, data, got) ==
    LET orig == ShapeZYX(data.shape)
        new  == AlignedOrigin(a, z, y, x)
    IN PutArray(w, a, AssignSlice3(got, Sub3(<<z, y, x>>, new), orig, data), new, TRUE)

\* the call of client i: arr[index] = a 3D buffer of the ranges' shape and
\* of the array's type, about to store its first tile
Writing(a, index, i) ==
    LET r     == RangesZYX(NormalizeIndex(index))
        sizes == Sizes3(r)
        incr  == IF Product(sizes) > a.maxreq THEN Increments(sizes, a.maxreq) ELSE sizes
    IN [ranges |-> r, val |-> Buffer(sizes, a.dtype, i), incr |-> incr,
        offs |-> IF Product(sizes) > a.maxreq THEN TileOffsets(sizes, incr)
                 ELSE << <<0, 0, 0>> >>,
        t |-> 1, pc |-> "tile", got |-> PyNone, sent |-> <<>>]

InitConc ==
    /\ arr \in ConcHandles
    /\ store = [c \in Universe(arr) |-> 0]
    /\ minpoint = <<>>
    /\ maxpoint = <<>>
    /\ last = NoCall
    /\ reqs = <<>>
    /\ pre = [store |-> store, minpoint |-> <<>>, maxpoint |-> <<>>]
    /\ nwrites = 0
    /\ dvid = NoServer
    /\ repo = NoRepo
    /\ handles = {}
    /\ call = NoRepoCall
    /\ loop = NoLoop
    /\ \E i1, i2 \in {i \in OwnIndexes(arr) : IsSlices(i)} :
          writers = <<Writing(arr, i1, 1), Writing(arr, i2, 2)>>

\* the tile client i is at: its origin and its part of the buffer
TileAt(wr) ==
    LET off == wr.offs[wr.t]
        cs  == TileShape(Sizes3(wr.ranges), wr.incr, off)
    IN [origin |-> Add3(off, Start3(wr.ranges)), data |-> Slice3(wr.val, off, cs)]

\* the world the next request of a client finds
Shared == [World(store, minpoint, maxpoint) EXCEPT !.reqs = reqs]

\* the tile at hand is stored: on to the next one, or the call returns
Advance(wr) ==
    [wr EXCEPT !.t = @ + 1, !.got = PyNone,
               !.pc = IF wr.t = Len(wr.offs) THEN "returned" ELSE "tile",
               !.sent = Append(@, Len(reqs) + 1)]

\* client i sends the first request of its tile
FirstRequest(i) ==
    /\ writers[i].pc = "tile"
    /\ \E tl \in {TileAt(writers[i])} :
       \E res \in {SetChunkFirst(Shared, arr, tl.origin[1], tl.origin[2], tl.origin[3],
                                 tl.data)} :
          /\ store' = res.w.store
          /\ minpoint' = res.w.minpoint
          /\ maxpoint' = res.w.maxpoint
          /\ reqs' = res.w.reqs
          /\ writers' = [writers EXCEPT ![i] =
                IF reqs'[Len(reqs')].op = "put" THEN Advance(@)
                ELSE [@ EXCEPT !.pc = "merge", !.got = res.data,
                               !.sent = Append(@, Len(reqs) + 1)]]
    /\ UNCHANGED <<arr, last, pre, nwrites, repovars, loop>>

\* client i merges its tile into the box it got and sends the put
SecondRequest(i) ==
    /\ writers[i].pc = "merge"
    /\ \E tl \in {TileAt(writers[i])} :
       \E w \in {SetChunkSecond(Shared, arr, tl.origin[1], tl.origin[2], tl.origin[3],
                                tl.data, writers[i].got)} :
          /\ store' = w.store
          /\ minpoint' = w.minpoint
          /\ maxpoint' = w.maxpoint
          /\ reqs' = w.reqs
          /\ writers' = [writers EXCEPT ![i] = Advance(@)]
    /\ UNCHANGED <<arr, last, pre, nwrites, repovars, loop>>

NextConc == \E i \in Writers : FirstRequest(i) \/ SecondRequest(i)

SpecConc == InitConc /\ [][NextConc]_vars

-----------------------------------------------------------------------------
(* Lost updates and commuting writes                                        *)

\* both calls have returned
BothReturned == \A i \in Writers : writers[i].pc = "returned"

\* the element client i supplies for cell c of its ranges
DataOf(i, c) == Broadcast3(writers[i].val, Sub3(c, Start3(writers[i].ranges)))

\* the calls of i and j were one tile each, neither aligned, and j got its
\* box before i put, and put it after
PutAfterStaleGet(i, j) ==
    /\ i # j /\ BothReturned
    /\ Len(writers[i].sent) = 2 /\ Len(writers[j].sent) = 2
    /\ writers[j].sent[1] < writers[i].sent[2]
    /\ writers[i].sent[2] < writers[j].sent[2]

\* cell c was written by i alone and lies in the box j put
LostCell(i, j, c) ==
    /\ InRanges(c, writers[i].ranges) /\ ~InRanges(c, writers[j].ranges)
    /\ InBox(c, reqs[writers[j].sent[2]].origin, reqs[writers[j].sent[2]].shape)

\* C27: two writes to disjoint cells of one block are not safe against
\* each other: when their get and put steps interleave so that one call
\* gets the block before the other puts it and puts it afterwards, both
\* calls return, the cells the other call wrote in that block hold what
\* they held before the two calls, and the cells of the later put hold its
\* data.
LostUpdate ==
    \A i, j \in Writers :
        PutAfterStaleGet(i, j) =>
            \A c \in DOMAIN store :
                /\ LostCell(i, j, c) => store[c] = pre.store[c]
                /\ InRanges(c, writers[j].ranges) => store[c] = DataOf(j, c)

\* both calls returned and a cell one of them wrote holds its old value,
\* not the data written to it
LostUpdateReached ==
    \E i, j \in Writers :
        /\ PutAfterStaleGet(i, j)
        /\ \E c \in DOMAIN store : LostCell(i, j, c) /\ store[c] # DataOf(i, c)

\* the block box of the ranges of client i
RegionCover(i) ==
    <<CoverOrigin(arr, <<Start3(writers[i].ranges), Sizes3(writers[i].ranges)>>),
      CoverShape(arr, <<Start3(writers[i].ranges), Sizes3(writers[i].ranges)>>)>>

CoversDisjoint ==
    Disjoint(RegionCover(1)[1], RegionCover(1)[2], RegionCover(2)[1], RegionCover(2)[2])

\* the world after client i's call, then client j's, each run by itself
InTurn(i, j) ==
    LET w0 == World(pre.store, pre.minpoint, pre.maxpoint)
        w1 == SetItem(w0, arr, RegionIndex(arr, writers[i].ranges), writers[i].val, TRUE)
    IN SetItem([w1 EXCEPT !.reqs = <<>>], arr, RegionIndex(arr, writers[j].ranges),
               writers[j].val, TRUE)

\* C30: two writes whose block-aligned regions are disjoint commute: after
\* any interleaving of their gets and puts the cells and the bounding box
\* are those left by the two calls run one after the other, in either
\* order.
DisjointWritesCommute ==
    (BothReturned /\ CoversDisjoint) =>
        \A i, j \in Writers :
            i # j =>
                /\ InTurn(i, j).err = "ok"
                /\ store = InTurn(i, j).store
                /\ minpoint = InTurn(i, j).minpoint
                /\ maxpoint = InTurn(i, j).maxpoint

\* two calls on disjoint blocks, each with a get and a put, returned after
\* the get of one was sent between the get and the put of the other
DisjointWritesCommuteReached ==
    /\ BothReturned /\ CoversDisjoint
    /\ Len(writers[1].sent) >= 2 /\ Len(writers[2].sent) >= 2
    /\ reqs[writers[1].sent[1]].op = "get" /\ reqs[writers[2].sent[1]].op = "get"
    /\ writers[1].sent[1] < writers[2].sent[1]
    /\ writers[2].sent[1] < writers[1].sent[2]

=============================================================================
